---- MODULE Spec2Model ----
(***************************************************************************)
(* Oracle Database vector store of n8n-nodes-oracle-cloud                  *)
(* (OracleDbVectorStore and the helpers it calls), with the embeddings     *)
(* client it is wired to (OciEmbeddings).  One action per public method;   *)
(* the database table, the embedding service and crypto.randomUUID are the *)
(* environment.                                                            *)
(***************************************************************************)
EXTENDS Integers, Sequences, FiniteSets, TLC

\* ------------------------------------------------------------------ bounds
MaxTexts == 2       \* longest texts / ids / metadatas / documents list of a call
MaxIds == 3         \* longest ids list where the derivation of ids is examined
MaxInserts == 2     \* insert calls (addTexts, addDocuments) in one run
MaxSearches == 1    \* search calls in one run

\* ------------------------------------------------ JavaScript value helpers
\* An optional value: None is undefined / null, Some(v) is the value v.
None == <<>>
Some(v) == <<v>>
IsSome(o) == o # <<>>
Get(o) == o[1]

\* arr[i] of a JavaScript array: undefined outside 0..length-1 (i is 1-based here).
At(arr, i) == IF i \in 1..Len(arr) THEN Some(arr[i]) ELSE None

\* Strings that are hashed are kept as their UTF-8 bytes.
IdA == <<97>>
IdB == <<98>>
IdC == <<99>>

\* crypto.randomUUID(): the n-th identifier drawn in a run.  Version-4 layout,
\* "00000000-0000-4000-8000-0000000000nn"; every draw is a new string.
RandomUUID(n) ==
  <<48, 48, 48, 48, 48, 48, 48, 48, 45, 48, 48, 48, 48, 45, 52, 48, 48, 48, 45,
    56, 48, 48, 48, 45, 48, 48, 48, 48, 48, 48, 48, 48, 48, 48>>
  \o <<48 + (n \div 10), 48 + (n % 10)>>

\* ------------------------------------------------------------- SHA-256
\* createHash('sha256').update(s).digest('hex').  A 32-bit word is the pair
\* <<high 16 bits, low 16 bits>>.
Pow2 == <<1, 2, 4, 8, 16, 32, 64, 128, 256, 512, 1024, 2048, 4096, 8192, 16384, 32768, 65536>>
TwoTo(n) == Pow2[n + 1]

XorNibble(a, b) ==
    ((a + b) % 2)
  + 2 * (((a \div 2) + (b \div 2)) % 2)
  + 4 * (((a \div 4) + (b \div 4)) % 2)
  + 8 * (((a \div 8) + (b \div 8)) % 2)
AndNibble(a, b) ==
    ((a % 2) * (b % 2))
  + 2 * (((a \div 2) % 2) * ((b \div 2) % 2))
  + 4 * (((a \div 4) % 2) * ((b \div 4) % 2))
  + 8 * ((a \div 8) * (b \div 8))
Xor16(a, b) ==
    4096 * XorNibble(a \div 4096, b \div 4096)
  + 256 * XorNibble((a \div 256) % 16, (b \div 256) % 16)
  + 16 * XorNibble((a \div 16) % 16, (b \div 16) % 16)
  + XorNibble(a % 16, b % 16)
And16(a, b) ==
    4096 * AndNibble(a \div 4096, b \div 4096)
  + 256 * AndNibble((a \div 256) % 16, (b \div 256) % 16)
  + 16 * AndNibble((a \div 16) % 16, (b \div 16) % 16)
  + AndNibble(a % 16, b % 16)

Xor(a, b) == <<Xor16(a[1], b[1]), Xor16(a[2], b[2])>>
And(a, b) == <<And16(a[1], b[1]), And16(a[2], b[2])>>
Not(a) == <<65535 - a[1], 65535 - a[2]>>
Add(a, b) ==
  LET lo == a[2] + b[2]
  IN <<(a[1] + b[1] + (lo \div 65536)) % 65536, lo % 65536>>
RotRSmall(a, n) ==
  <<(a[1] \div TwoTo(n)) + (a[2] % TwoTo(n)) * TwoTo(16 - n),
    (a[2] \div TwoTo(n)) + (a[1] % TwoTo(n)) * TwoTo(16 - n)>>
RotR(a, n) == IF n >= 16 THEN RotRSmall(<<a[2], a[1]>>, n - 16) ELSE RotRSmall(a, n)
ShR(a, n) ==
  IF n >= 16 THEN <<0, a[1] \div TwoTo(n - 16)>>
  ELSE <<a[1] \div TwoTo(n), (a[2] \div TwoTo(n)) + (a[1] % TwoTo(n)) * TwoTo(16 - n)>>

Sha256K ==
  <<
    <<17034, 12184>>, <<28983, 17553>>, <<46528, 64463>>, <<59829, 56229>>,
    <<14678, 49755>>, <<23025, 4593>>, <<37439, 33444>>, <<43804, 24277>>,
    <<55303, 43672>>, <<4739, 23297>>, <<9265, 34238>>, <<21772, 32195>>,
    <<29374, 23924>>, <<32990, 45566>>, <<39900, 1703>>, <<49563, 61812>>,
    <<58523, 27073>>, <<61374, 18310>>, <<4033, 40390>>, <<9228, 41420>>,
    <<11753, 11375>>, <<19060, 33962>>, <<23728, 43484>>, <<30457, 35034>>,
    <<38974, 20818>>, <<43057, 50797>>, <<45059, 10184>>, <<48985, 32711>>,
    <<50912, 3059>>, <<54695, 37191>>, <<1738, 25425>>, <<5161, 10599>>,
    <<10167, 2693>>, <<11803, 8504>>, <<19756, 28156>>, <<21304, 3347>>,
    <<25866, 29524>>, <<30314, 2747>>, <<33218, 51502>>, <<37490, 11397>>,
    <<41663, 59553>>, <<43034, 26187>>, <<49739, 35696>>, <<51052, 20899>>,
    <<53650, 59417>>, <<54937, 1572>>, <<62478, 13701>>, <<4202, 41072>>,
    <<6564, 49430>>, <<7735, 27656>>, <<10056, 30540>>, <<13488, 48309>>,
    <<14620, 3251>>, <<20184, 43594>>, <<23452, 51791>>, <<26670, 28659>>,
    <<29839, 33518>>, <<30885, 25455>>, <<33992, 30740>>, <<36039, 520>>,
    <<37054, 65530>>, <<42064, 27883>>, <<48889, 41975>>, <<50801, 30962>>
  >>

Sha256H0 ==
  <<
    <<27145, 58983>>, <<47975, 44677>>, <<15470, 62322>>, <<42319, 62778>>,
    <<20750, 21119>>, <<39685, 26764>>, <<8067, 55723>>, <<23520, 52505>>
  >>

Sha256Pad(bytes) ==
  LET L == Len(bytes)
      k == (64 - ((L + 9) % 64)) % 64
  IN bytes \o <<128>> \o [i \in 1..(k + 6) |-> 0] \o <<(8 * L) \div 256, (8 * L) % 256>>

SmallSigma0(x) == Xor(Xor(RotR(x, 7), RotR(x, 18)), ShR(x, 3))
SmallSigma1(x) == Xor(Xor(RotR(x, 17), RotR(x, 19)), ShR(x, 10))
BigSigma0(x) == Xor(Xor(RotR(x, 2), RotR(x, 13)), RotR(x, 22))
BigSigma1(x) == Xor(Xor(RotR(x, 6), RotR(x, 11)), RotR(x, 25))
Ch(e, f, g) == Xor(And(e, f), And(Not(e), g))
Maj(a, b, c) == Xor(Xor(And(a, b), And(a, c)), And(b, c))

RECURSIVE Schedule(_)
Schedule(w) ==
  IF Len(w) = 64 THEN w
  ELSE LET t == Len(w) + 1
       IN Schedule(Append(w, Add(Add(SmallSigma1(w[t - 2]), w[t - 7]),
                                 Add(SmallSigma0(w[t - 15]), w[t - 16]))))

Round(s, wt, kt) ==
  LET t1 == Add(Add(Add(s[8], BigSigma1(s[5])), Add(Ch(s[5], s[6], s[7]), kt)), wt)
      t2 == Add(BigSigma0(s[1]), Maj(s[1], s[2], s[3]))
  IN <<Add(t1, t2), s[1], s[2], s[3], Add(s[4], t1), s[5], s[6], s[7]>>

RECURSIVE Rounds(_, _, _)
Rounds(s, w, t) ==
  IF Len(s) # 8 \/ t > 64 THEN s
  ELSE Rounds(Round(s, w[t], Sha256K[t]), w, t + 1)

Compress(h, block) ==
  LET w == Schedule([j \in 1..16 |-> <<256 * block[4 * j - 3] + block[4 * j - 2],
                                       256 * block[4 * j - 1] + block[4 * j]>>])
      s == Rounds(h, w, 1)
  IN <<Add(h[1], s[1]), Add(h[2], s[2]), Add(h[3], s[3]), Add(h[4], s[4]),
       Add(h[5], s[5]), Add(h[6], s[6]), Add(h[7], s[7]), Add(h[8], s[8])>>

RECURSIVE Blocks(_, _)
Blocks(h, bytes) ==
  IF bytes = <<>> THEN h
  ELSE Blocks(Compress(h, SubSeq(bytes, 1, 64)), SubSeq(bytes, 65, Len(bytes)))

HexChars == <<"0", "1", "2", "3", "4", "5", "6", "7", "8", "9", "a", "b", "c", "d", "e", "f">>
Hex16(n) ==
  <<HexChars[(n \div 4096) + 1], HexChars[((n \div 256) % 16) + 1],
    HexChars[((n \div 16) % 16) + 1], HexChars[(n % 16) + 1]>>
RECURSIVE HexWords(_)
HexWords(ws) ==
  IF ws = <<>> THEN <<>>
  ELSE Hex16(Head(ws)[1]) \o Hex16(Head(ws)[2]) \o HexWords(Tail(ws))

\* The digest as its 64 lower-case hexadecimal characters.
Sha256Hex(bytes) == HexWords(Blocks(Sha256H0, Sha256Pad(bytes)))

\* ------------------------------------------------------ record identifiers
UpperChar(c) ==
  CASE c = "a" -> "A" [] c = "b" -> "B" [] c = "c" -> "C"
    [] c = "d" -> "D" [] c = "e" -> "E" [] c = "f" -> "F" [] OTHER -> c
ToUpperCase(cs) == [i \in 1..Len(cs) |-> UpperChar(cs[i])]

\* A faulty variant: the hash is never fed the id (no update call).
HashIdNoUpdate(src) == ToUpperCase(SubSeq(Sha256Hex(<<>>), 1, 16))

\* createHash('sha256').update(_id).digest('hex').substring(0, 16).toUpperCase()
HashId(src) == ToUpperCase(SubSeq(Sha256Hex(src), 1, 16))

\* Every string a run can hash: the ids a caller passes and the identifiers
\* randomUUID can produce in a bounded run.
Utf8(s) == CASE s = "a" -> IdA [] s = "b" -> IdB [] s = "c" -> IdC
HashedStrings == {IdA, IdB, IdC} \cup {RandomUUID(n) : n \in 1..(MaxIds * MaxInserts)}

\* Buffer.from(id, 'hex'): two hexadecimal characters make one byte.
HexValue(c) ==
  CASE c = "0" -> 0 [] c = "1" -> 1 [] c = "2" -> 2 [] c = "3" -> 3 [] c = "4" -> 4
    [] c = "5" -> 5 [] c = "6" -> 6 [] c = "7" -> 7 [] c = "8" -> 8 [] c = "9" -> 9
    [] c \in {"A", "a"} -> 10 [] c \in {"B", "b"} -> 11 [] c \in {"C", "c"} -> 12
    [] c \in {"D", "d"} -> 13 [] c \in {"E", "e"} -> 14 [] c \in {"F", "f"} -> 15
BufferFromHex(hex) ==
  [i \in 1..(Len(hex) \div 2) |-> 16 * HexValue(hex[2 * i - 1]) + HexValue(hex[2 * i])]

\* --------------------------------------------------------------- metadata
\* A metadata object is the sequence of its <<key, value>> members in insertion
\* order; JSON text is the sequence of its lexical pieces.
HasKey(md, key) == \E i \in 1..Len(md) : md[i][1] = key
Member(md, key) == md[CHOOSE i \in 1..Len(md) : md[i][1] = key][2]

RECURSIVE JsonMembers(_)
JsonMembers(md) ==
  IF md = <<>> THEN <<>>
  ELSE <<"\"", md[1][1], "\"", ":", "\"", md[1][2], "\"">>
       \o (IF Len(md) > 1 THEN <<",">> ELSE <<>>) \o JsonMembers(Tail(md))
JsonStringify(md) == <<"{">> \o JsonMembers(md) \o <<"}">>

RECURSIVE JsonParseMembers(_)
JsonParseMembers(toks) ==
  IF toks[1] = "}" THEN <<>>
  ELSE LET rest == SubSeq(toks, 8, Len(toks))
       IN << <<toks[2], toks[6]>> >>
          \o JsonParseMembers(IF rest[1] = "," THEN Tail(rest) ELSE rest)
JsonParse(text) == JsonParseMembers(Tail(text))

\* ------------------------------------------------------- embeddings client
BATCH_SIZE == 90

\* The inference service: one vector per input, of the dimension of the model.
ServiceVector(t) ==
  CASE t = "x" -> <<1, 0, 0, 0>>
    [] t = "y" -> <<0, 1, 0, 0>>
    [] t = "test" -> <<1, 1, 1, 0>>
    [] t = "q" -> <<1, 2, 0, 1>>
    [] OTHER -> <<2, 2, 1, 1>>
EmbedText(inputs, dim) == [i \in 1..Len(inputs) |-> SubSeq(ServiceVector(inputs[i]), 1, dim)]

Truthy(s) == s # ""

\* A variant whose batches overlap by one text.
BatchesOverlapping(docs) ==
  [k \in 1..((Len(docs) + BATCH_SIZE - 1) \div BATCH_SIZE) |->
     SubSeq(docs, (k - 1) * BATCH_SIZE + 1,
            IF k * BATCH_SIZE + 1 < Len(docs) THEN k * BATCH_SIZE + 1 ELSE Len(docs))]

RECURSIVE Batches(_)
Batches(docs) ==
  IF docs = <<>> THEN <<>>
  ELSE LET n == IF Len(docs) < BATCH_SIZE THEN Len(docs) ELSE BATCH_SIZE
       IN <<SubSeq(docs, 1, n)>> \o Batches(SubSeq(docs, n + 1, Len(docs)))

RECURSIVE ConcatAll(_)
ConcatAll(ss) == IF ss = <<>> THEN <<>> ELSE Head(ss) \o ConcatAll(Tail(ss))

\* OciEmbeddings.embedDocuments.  up: the service answers; requests: the inputs
\* of every embedText request sent.
EmbedDocuments(documents, dim, up) ==
  LET docs == SelectSeq(documents, Truthy)
      batches == IF Len(docs) <= BATCH_SIZE THEN <<docs>> ELSE Batches(docs)
  IN IF up
     THEN [ok |-> TRUE, value |-> ConcatAll([b \in 1..Len(batches) |-> EmbedText(batches[b], dim)]),
           requests |-> batches]
     ELSE [ok |-> FALSE, value |-> <<>>, requests |-> <<batches[1]>>]

\* OciEmbeddings.embedQuery
EmbedQuery(document, dim, up) ==
  IF up THEN [ok |-> TRUE, value |-> EmbedText(<<document>>, dim)[1]]
  ELSE [ok |-> FALSE, value |-> <<>>]

\* new Float32Array(v): every component here is an integer below 2^24, which
\* float32 holds exactly; new Float32Array(undefined) is the empty array.
Float32Array(v) == IF IsSome(v) THEN [i \in 1..Len(Get(v)) |-> Get(v)[i]] ELSE <<>>

\* ---------------------------------------------------------------- database
NoTable == [exists |-> FALSE, width |-> 0, rows |-> <<>>]
EmptyTable(w) == [exists |-> TRUE, width |-> w, rows |-> <<>>]

\* INSERT of one bound row: the vector must have the column's width and the
\* primary key must be new.
RowError(rows, bind, width) ==
  IF Len(bind.embedding) # width THEN "ORA-51803"
  ELSE IF \E i \in 1..Len(rows) : rows[i].id = bind.id THEN "ORA-00001"
  ELSE ""

\* executeMany with batchErrors: true goes on past a failing row and collects it.
RECURSIVE InsertBatch(_, _, _, _, _)
InsertBatch(rows, binds, i, errors, width) ==
  IF i > Len(binds) THEN [rows |-> rows, errors |-> errors]
  ELSE LET e == RowError(rows, binds[i], width)
       IN IF e = "" THEN InsertBatch(Append(rows, binds[i]), binds, i + 1, errors, width)
          ELSE InsertBatch(rows, binds, i + 1,
                           Append(errors, [offset |-> i - 1, error |-> e]), width)

ExecuteMany(tbl, binds) ==
  IF binds = <<>> THEN [ok |-> FALSE, error |-> "NJS-005", table |-> tbl, batchErrors |-> <<>>]
  ELSE IF ~tbl.exists
  THEN [ok |-> FALSE, error |-> "ORA-00942", table |-> tbl, batchErrors |-> <<>>]
  ELSE LET r == InsertBatch(tbl.rows, binds, 1, <<>>, tbl.width)
       IN [ok |-> TRUE, error |-> "", table |-> [tbl EXCEPT !.rows = r.rows],
           batchErrors |-> r.errors]

RECURSIVE Dot(_, _)
Dot(a, b) == IF a = <<>> THEN 0 ELSE a[1] * b[1] + Dot(Tail(a), Tail(b))

\* vector_distance(embedding, :embedding, metric), kept exact: EUCLIDEAN is
\* sqrt(num), DOT is num (the negated dot product), COSINE is 1 - num / sqrt(den).
VectorDistance(a, q, metric) ==
  CASE metric = "EUCLIDEAN" ->
         [metric |-> metric, num |-> Dot([i \in 1..Len(a) |-> a[i] - q[i]],
                                         [i \in 1..Len(a) |-> a[i] - q[i]]), den |-> 1]
    [] metric = "DOT" -> [metric |-> metric, num |-> 0 - Dot(a, q), den |-> 1]
    [] metric = "COSINE" -> [metric |-> metric, num |-> Dot(a, q), den |-> Dot(a, a) * Dot(q, q)]

Sign(n) == IF n > 0 THEN 1 ELSE IF n < 0 THEN 0 - 1 ELSE 0
DistanceLess(d1, d2) ==
  IF d1.metric = "COSINE"
  THEN Sign(d1.num) * d1.num * d1.num * d2.den > Sign(d2.num) * d2.num * d2.num * d1.den
  ELSE d1.num < d2.num
DistanceIsZero(d) ==
  IF d.metric = "COSINE" THEN d.num > 0 /\ d.num * d.num = d.den ELSE d.num = 0

\* ORDER BY distance: rows at the same distance stay in stored order.
RECURSIVE OrderByDistance(_)
OrderByDistance(rs) ==
  IF rs = <<>> THEN <<>>
  ELSE LET last == rs[Len(rs)]
           front == OrderByDistance(SubSeq(rs, 1, Len(rs) - 1))
           n == Cardinality({i \in 1..Len(front) : ~DistanceLess(last.DISTANCE, front[i].DISTANCE)})
       IN SubSeq(front, 1, n) \o <<last>> \o SubSeq(front, n + 1, Len(front))

\* SELECT id, text, metadata, vector_distance(...) AS distance FROM table
\* ORDER BY distance FETCH APPROX FIRST k ROWS ONLY (no vector index: exact).
SelectNearest(tbl, q, metric, k) ==
  IF ~(metric \in {"EUCLIDEAN", "DOT", "COSINE"})
  THEN [ok |-> FALSE, error |-> "ORA-00936", rows |-> <<>>]
  ELSE IF ~IsSome(k) THEN [ok |-> FALSE, error |-> "ORA-00904", rows |-> <<>>]
  ELSE IF ~tbl.exists THEN [ok |-> FALSE, error |-> "ORA-00942", rows |-> <<>>]
  ELSE IF tbl.rows # <<>> /\ Len(q) # tbl.width
  THEN [ok |-> FALSE, error |-> "ORA-51808", rows |-> <<>>]
  ELSE LET all == OrderByDistance(
                    [i \in 1..Len(tbl.rows) |->
                      [ID |-> tbl.rows[i].id, TEXT |-> tbl.rows[i].text,
                       METADATA |-> tbl.rows[i].metadata,
                       DISTANCE |-> VectorDistance(tbl.rows[i].embedding, q, metric)]])
       IN [ok |-> TRUE, error |-> "",
           rows |-> SubSeq(all, 1, IF Get(k) < Len(all) THEN Get(k) ELSE Len(all))]

\* -------------------------------------------------------------------- state
VARIABLES
  client,            \* this.client: "connection", "pool" or "invalid" (neither)
  query,             \* this.query: the configured sample query, if any
  distanceStrategy,  \* this.distanceStrategy
  filter,            \* this.filter
  connection,        \* this.connection: None until init resolves one
  modelDim,          \* dimension of the model this.embeddings is configured with
  tbl,               \* the database table named this.tableName
  uuids,             \* how many identifiers randomUUID has produced
  digest,            \* HashId of every string of HashedStrings (a pure function, computed once)
  inserts,           \* insert calls made so far
  searches,          \* search calls made so far
  op,                \* the last method called on the store
  args,              \* its arguments
  outcome,           \* "ok": it returned; "throw": it raised to its caller
  error,             \* the error it raised, "" if none
  logged,            \* the errors it wrote to the console instead of raising them
  batchErrors,       \* results.batchErrors of its executeMany call
  calls,             \* the calls it made to the embeddings, the client and the connection, in order
  result             \* what it returned

\* One item of SpeechTranscriptionOci.execute: its parameters, its position,
\* its locals, the clock, the bucket, and what it called, raised and returned.
VARIABLES
  params,            \* the node parameters of the item
  pc,                \* the await the item is suspended at
  now,               \* Date.now(), in ms since the item started
  wake,              \* when the timer of the pending sleep is due
  deadline,          \* const deadline
  jobId,             \* const jobId
  lifecycleState,    \* let lifecycleState
  finalJobDetails,   \* let finalJobDetails
  job,               \* const job: the job of the answer to createTranscriptionJob
  bucket,            \* the names of the objects in the output bucket, in listing order
  listed,            \* how many of prefixesToTry have been listed
  allObjects,        \* let allObjects
  getObjResp,        \* const getObjResp: the body of the object fetched, None before
  requests,          \* the calls made to sleep, the speech client and the object client
  thrown,            \* the error execute rejects with, None if none
  returnItems        \* const returnItems

\* The ChatOciGenerativeAi instances constructed so far, and one call of
\* _generate on an instance of model chatModel.
VARIABLES
  instances,         \* the instances, in order of construction
  bindCall,          \* the last call of bindTools: its instance, its tools, what it returned
  chatCalls,         \* the requests passed to client.chat, in order
  chatModel,         \* this.model
  chatPc,            \* where the call is: idle, chat (awaiting client.chat), done
  messages,          \* the messages passed to _generate
  chatRequest,       \* let chatRequest, None before it is built
  generation         \* the message of the ChatResult, or what the call threw; None before

chat == <<instances, bindCall, chatCalls, chatModel, chatPc, messages, chatRequest, generation>>

\* One call of OciEmbeddings.embedDocuments or embedQuery.
VARIABLES
  embedOp,           \* the method called, "none" before
  embedPc,           \* where the call is: idle, embedText (awaiting client.embedText), done
  embedArg,          \* the argument of the call
  embedQueue,        \* the batches not yet sent
  batchResults,      \* let batchResults
  embedSent,         \* the inputs of the requests passed to client.embedText, in order
  embedResponse,     \* const embedResponse: the last answer of client.embedText, None before
  embedReturn        \* what the call returned or threw, None before

embed == <<embedOp, embedPc, embedArg, embedQueue, batchResults, embedSent, embedResponse,
           embedReturn>>

\* Applications of privateKeyParse.
VARIABLES
  keyInput,          \* the argument of the last application
  keyOutput,         \* what it returned, None before
  keyPasses          \* how many applications there were

keys == <<keyInput, keyOutput, keyPasses>>

\* The variables of the components added after the store, the node and the chat model.
\* Method calls on the proxy logWrapper returns.
VARIABLES
  wrapKind,          \* what originalInstance is: tool, vectorStore or embeddings
  wrapCalls,         \* the calls made on the proxy, with what the caller got
  inputData,         \* what executeFunctions.addInputData was given; the index it answers is the place
  outputData,        \* what executeFunctions.addOutputData was given
  targetCalls        \* the calls made on the wrapped instance

wrapper == <<wrapKind, wrapCalls, inputData, outputData, targetCalls>>

\* Concurrent calls of OracleDbVectorStore.init() for one table name.
VARIABLES
  initPc,            \* the await each initializer is at, or returned
  initDim,           \* the dimension of the embeddings model of each initializer
  probedDim,      \* const embeddingDim of each initializer, None before
  creations          \* the widths of the CREATE TABLE statements that succeeded, in order

race == <<initPc, initDim, probedDim, creations>>

others == <<embed, keys, wrapper, race>>

speech == <<params, pc, now, wake, deadline, jobId, lifecycleState, finalJobDetails, job,
            bucket, listed, allObjects, getObjResp, requests, thrown, returnItems>>

storeVars == <<client, query, distanceStrategy, filter, connection, modelDim, tbl, uuids,
               digest, inserts, searches, op, args, outcome, error, logged, batchErrors, calls,
               result>>
vars == <<storeVars, speech, chat, others>>
store == <<client, query, distanceStrategy, filter, modelDim, digest>>

Call(fn, texts, rows, n) == [fn |-> fn, texts |-> texts, rows |-> rows, n |-> n]

\* ------------------------------------------------------- module functions
\* _get_connection
GetConnection(c) ==
  IF c = "connection" THEN [ok |-> TRUE, error |-> "", calls |-> <<>>]
  ELSE IF c = "pool" THEN [ok |-> TRUE, error |-> "", calls |-> <<Call("getConnection", <<>>, <<>>, 0)>>]
  ELSE [ok |-> FALSE, error |-> "Invalid client type", calls |-> <<>>]

\* _table_exists: SELECT COUNT(*); ORA-00942 means no; any other error is rethrown.
TableExists(t, dbOk) ==
  IF ~dbOk THEN [ok |-> FALSE, error |-> "ORA-03113", value |-> FALSE]
  ELSE [ok |-> TRUE, error |-> "", value |-> t.exists]

\* A database in which CREATE TABLE replaces a table of the same name.
CreateTableReplacing(t, embeddingDim) ==
  IF embeddingDim < 1 THEN [ok |-> FALSE, error |-> "ORA-51801", table |-> t]
  ELSE [ok |-> TRUE, error |-> "", table |-> EmptyTable(embeddingDim)]

\* _create_table: CREATE TABLE ... embedding VECTOR(embeddingDim, FLOAT32)
CreateTable(t, embeddingDim) ==
  IF t.exists THEN [ok |-> FALSE, error |-> "ORA-00955", table |-> t]
  ELSE IF embeddingDim < 1 THEN [ok |-> FALSE, error |-> "ORA-51801", table |-> t]
  ELSE [ok |-> TRUE, error |-> "", table |-> EmptyTable(embeddingDim)]

\* _get_distance_function.  `key in object` is also true of every property the
\* object literal inherits from Object.prototype.
DistanceStrategy2Function ==
  {<<"EUCLIDEAN_DISTANCE", "EUCLIDEAN">>, <<"DOT_PRODUCT", "DOT">>, <<"COSINE", "COSINE">>}
ObjectPrototypeKeys ==
  {"constructor", "hasOwnProperty", "isPrototypeOf", "propertyIsEnumerable",
   "toLocaleString", "toString", "valueOf", "__proto__"}
In(key, object) == (\E p \in object : p[1] = key) \/ key \in ObjectPrototypeKeys
Lookup(object, key) ==
  IF \E p \in object : p[1] = key THEN (CHOOSE p \in object : p[1] = key)[2]
  ELSE "[object inherited from Object.prototype]"
GetDistanceFunction(strategy) ==
  IF In(strategy, DistanceStrategy2Function)
  THEN [ok |-> TRUE, value |-> Lookup(DistanceStrategy2Function, strategy), error |-> "", names |-> ""]
  ELSE [ok |-> FALSE, value |-> "", error |-> "Unsupported distance strategy", names |-> strategy]

\* _mergeArraysToObject: one record per id.
MergeArraysToObject(ids, texts, metadatas, embeddings) ==
  [i \in 1..Len(ids) |->
    [id |-> ids[i], text |-> At(texts, i), metadata |-> At(metadatas, i),
     embedding |-> At(embeddings, i)]]

\* constructor: fields.distanceStrategy || DistanceStrategy.EUCLIDEAN_DISTANCE
StrategyOrDefault(s) == IF s = None \/ Get(s) = "" THEN "EUCLIDEAN_DISTANCE" ELSE Get(s)

\* ------------------------------------------------------ OracleDbVectorStore
\* init(): everything it raises is caught and logged; it always returns.
InitRun(up, dbOk) ==
  LET conn == GetConnection(client)
      exists == TableExists(tbl, dbOk)
      canary == IF IsSome(query) /\ Truthy(Get(query)) THEN Get(query) ELSE "test"
      probe == EmbedQuery(canary, modelDim, up)
      created == CreateTable(tbl, Len(probe.value))
      c1 == conn.calls \o <<Call("execute", <<"SELECT COUNT">>, <<>>, 0)>>
      c2 == c1 \o <<Call("embedQuery", <<canary>>, <<>>, 0)>>
      c3 == c2 \o <<Call("execute", <<"CREATE TABLE">>, <<>>, Len(probe.value))>>
  IN IF ~conn.ok
     THEN [logged |-> <<conn.error>>, calls |-> conn.calls, connection |-> connection, table |-> tbl]
     ELSE IF ~exists.ok
     THEN [logged |-> <<exists.error>>, calls |-> c1, connection |-> Some("connection"), table |-> tbl]
     ELSE IF exists.value
     THEN [logged |-> <<>>, calls |-> c1, connection |-> Some("connection"), table |-> tbl]
     ELSE IF ~probe.ok
     THEN [logged |-> <<"embedText failed">>, calls |-> c2, connection |-> Some("connection"), table |-> tbl]
     ELSE [logged |-> IF created.ok THEN <<>> ELSE <<created.error>>, calls |-> c3, connection |-> Some("connection"),
           table |-> created.table]

\* A faulty variant: metadata ids are preferred to explicit ids.
IdSourcesMetadataFirst(texts, metadatas, ids, drawn) ==
  IF IsSome(metadatas) /\ \A i \in 1..Len(Get(metadatas)) : HasKey(Get(metadatas)[i], "id")
  THEN [i \in 1..Len(Get(metadatas)) |-> Utf8(Member(Get(metadatas)[i], "id"))]
  ELSE IF IsSome(ids) /\ Len(Get(ids)) > 0
  THEN [i \in 1..Len(Get(ids)) |-> Utf8(Get(ids)[i])]
  ELSE [i \in 1..Len(texts) |-> RandomUUID(drawn + i)]

\* addTexts: where the ids come from.
IdSources(texts, metadatas, ids, drawn) ==
  IF IsSome(ids) /\ Len(Get(ids)) > 0
  THEN [i \in 1..Len(Get(ids)) |-> Utf8(Get(ids)[i])]
  ELSE IF IsSome(metadatas) /\ \A i \in 1..Len(Get(metadatas)) : HasKey(Get(metadatas)[i], "id")
  THEN [i \in 1..Len(Get(metadatas)) |-> Utf8(Member(Get(metadatas)[i], "id"))]
  ELSE [i \in 1..Len(texts) |-> RandomUUID(drawn + i)]

UuidsDrawn(texts, metadatas, ids) ==
  IF IsSome(ids) /\ Len(Get(ids)) > 0 THEN 0
  ELSE IF IsSome(metadatas) /\ \A i \in 1..Len(Get(metadatas)) : HasKey(Get(metadatas)[i], "id")
  THEN 0
  ELSE Len(texts)

ProcessedId(src) == digest[src]

Binds(records) ==
  [i \in 1..Len(records) |->
    [id |-> BufferFromHex(records[i].id),
     text |-> records[i].text,
     metadata |-> IF IsSome(records[i].metadata)
                  THEN Some(JsonStringify(Get(records[i].metadata))) ELSE None,
     embedding |-> Float32Array(records[i].embedding)]]

\* addTexts on the table t with `drawn` identifiers already produced.
AddTextsRun(t, drawn, texts, metadatas, ids, up) ==
  LET sources == IdSources(texts, metadatas, ids, drawn)
      processed_ids == [i \in 1..Len(sources) |-> ProcessedId(sources[i])]
      mds == IF IsSome(metadatas) THEN Get(metadatas) ELSE [i \in 1..Len(texts) |-> <<>>]
      embeddings == EmbedDocuments(texts, modelDim, up)
      records == MergeArraysToObject(processed_ids, texts, mds, embeddings.value)
      conn == GetConnection(client)
      binds == Binds(records)
      done == ExecuteMany(t, binds)
      c1 == <<Call("embedDocuments", texts, <<>>, 0)>>
      c2 == c1 \o conn.calls \o <<Call("executeMany", <<"INSERT">>, binds, 0)>>
      drawn2 == drawn + UuidsDrawn(texts, metadatas, ids)
  IN IF ~embeddings.ok
     THEN [outcome |-> "throw", error |-> "embedText failed", logged |-> <<>>, batchErrors |-> <<>>, calls |-> c1,
           table |-> t, uuids |-> drawn2]
     ELSE IF ~conn.ok
     THEN [outcome |-> "throw", error |-> conn.error, logged |-> <<>>, batchErrors |-> <<>>, calls |-> c1,
           table |-> t, uuids |-> drawn2]
     ELSE IF ~done.ok
     THEN [outcome |-> "throw", error |-> done.error, logged |-> <<>>, batchErrors |-> <<>>, calls |-> c2,
           table |-> t, uuids |-> drawn2]
     ELSE [outcome |-> "ok", error |-> "",
           logged |-> [i \in 1..Len(done.batchErrors) |-> done.batchErrors[i].error],
           batchErrors |-> done.batchErrors, calls |-> c2,
           table |-> done.table, uuids |-> drawn2]

\* A faulty variant: the table is truncated after the insert instead of before it.
AddDocumentsRunClearLast(t, drawn, documents, clearTable, up) ==
  LET texts == [i \in 1..Len(documents) |-> documents[i].pageContent]
      metadatas == [i \in 1..Len(documents) |-> documents[i].metadata]
      added == AddTextsRun(t, drawn, texts, Some(metadatas), None, up)
  IN IF clearTable /\ added.outcome = "ok"
     THEN [added EXCEPT !.calls = @ \o <<Call("execute", <<"TRUNCATE TABLE">>, <<>>, 0)>>,
                        !.table = [@ EXCEPT !.rows = <<>>]]
     ELSE added

\* addDocuments
AddDocumentsRun(t, drawn, documents, clearTable, up) ==
  LET conn == GetConnection(client)
      truncated == IF t.exists THEN [t EXCEPT !.rows = <<>>] ELSE t
      texts == [i \in 1..Len(documents) |-> documents[i].pageContent]
      metadatas == [i \in 1..Len(documents) |-> documents[i].metadata]
      c0 == conn.calls \o <<Call("execute", <<"TRUNCATE TABLE">>, <<>>, 0)>>
      added == AddTextsRun(IF clearTable THEN truncated ELSE t, drawn, texts, Some(metadatas), None, up)
  IN IF clearTable /\ ~conn.ok
     THEN [outcome |-> "throw", error |-> conn.error, logged |-> <<>>, batchErrors |-> <<>>,
           calls |-> <<>>, table |-> t, uuids |-> drawn]
     ELSE IF clearTable /\ ~t.exists
     THEN [outcome |-> "throw", error |-> "ORA-00942", logged |-> <<>>, batchErrors |-> <<>>,
           calls |-> c0, table |-> t, uuids |-> drawn]
     ELSE IF clearTable THEN [added EXCEPT !.calls = c0 \o added.calls]
     ELSE added

\* A faulty variant: rows are kept only if their metadata has every member of the filter.
ResultRowsFiltered(rows, f, storeFilter) ==
  LET wanted == IF IsSome(f) THEN Get(f) ELSE IF IsSome(storeFilter) THEN Get(storeFilter) ELSE <<>>
      Matches(row) ==
        \A i \in 1..Len(wanted) :
          /\ IsSome(row.METADATA)
          /\ HasKey(JsonParse(Get(row.METADATA)), wanted[i][1])
          /\ Member(JsonParse(Get(row.METADATA)), wanted[i][1]) = wanted[i][2]
  IN SelectSeq(rows, Matches)

\* rows = result.rows || []; the filter argument and this.filter are not read.
ResultRows(rows, f, storeFilter) == rows

Document(row) ==
  [pageContent |-> row.TEXT,
   metadata |-> IF IsSome(row.METADATA) THEN JsonParse(Get(row.METADATA)) ELSE <<>>]

\* similaritySearchVectorWithScore
SearchVectorRun(q, k, f) ==
  LET fn == GetDistanceFunction(distanceStrategy)
      conn == GetConnection(client)
      found == SelectNearest(tbl, Float32Array(Some(q)), fn.value, Some(k))
      rows == ResultRows(found.rows, f, filter)
      c1 == conn.calls \o <<Call("execute", <<"SELECT", fn.value>>, <<>>, k)>>
  IN IF ~fn.ok THEN [outcome |-> "throw", error |-> fn.error, calls |-> <<>>, result |-> <<>>]
     ELSE IF ~conn.ok THEN [outcome |-> "throw", error |-> conn.error, calls |-> <<>>, result |-> <<>>]
     ELSE IF ~found.ok THEN [outcome |-> "throw", error |-> found.error, calls |-> c1, result |-> <<>>]
     ELSE [outcome |-> "ok", error |-> "", calls |-> c1,
           result |-> [i \in 1..Len(rows) |-> [doc |-> Document(rows[i]), score |-> rows[i].DISTANCE]]]

\* similaritySearch
SearchRun(text, k, f, up) ==
  LET embedded == EmbedQuery(text, modelDim, up)
      fn == GetDistanceFunction(distanceStrategy)
      conn == GetConnection(client)
      found == SelectNearest(tbl, Float32Array(Some(embedded.value)), fn.value, k)
      rows == ResultRows(found.rows, f, filter)
      c0 == <<Call("embedQuery", <<text>>, <<>>, 0)>>
      c1 == c0 \o conn.calls \o <<Call("execute", <<"SELECT", fn.value>>, <<>>, IF IsSome(k) THEN Get(k) ELSE 0)>>
  IN IF ~Truthy(text) THEN [outcome |-> "ok", error |-> "", calls |-> <<>>, result |-> <<>>]
     ELSE IF ~embedded.ok
     THEN [outcome |-> "throw", error |-> "embedText failed", calls |-> c0, result |-> <<>>]
     ELSE IF ~fn.ok THEN [outcome |-> "throw", error |-> fn.error, calls |-> c0, result |-> <<>>]
     ELSE IF ~conn.ok THEN [outcome |-> "throw", error |-> conn.error, calls |-> c0, result |-> <<>>]
     ELSE IF ~found.ok THEN [outcome |-> "throw", error |-> found.error, calls |-> c1, result |-> <<>>]
     ELSE [outcome |-> "ok", error |-> "", calls |-> c1,
           result |-> [i \in 1..Len(rows) |-> Document(rows[i])]]

\* ------------------------------------------------------------------ actions
InitStore(up, dbOk) ==
  /\ op = "new"
  /\ \E r \in {InitRun(up, dbOk)} :
       /\ op' = "init"
       /\ args' = [up |-> up, dbOk |-> dbOk, existed |-> tbl.exists]
       /\ outcome' = "ok"
       /\ error' = ""
       /\ logged' = r.logged
       /\ batchErrors' = <<>>
       /\ calls' = r.calls
       /\ result' = <<>>
       /\ connection' = r.connection
       /\ tbl' = r.table
       /\ UNCHANGED <<others, chat, speech, store, uuids, inserts, searches>>

AddTexts(texts, metadatas, ids, up) ==
  /\ op # "new"
  /\ searches = 0
  /\ inserts < MaxInserts
  /\ \E r \in {AddTextsRun(tbl, uuids, texts, metadatas, ids, up)} :
       /\ op' = "addTexts"
       /\ args' = [texts |-> texts, metadatas |-> metadatas, ids |-> ids, up |-> up,
                   drawn |-> uuids, clearTable |-> FALSE]
       /\ outcome' = r.outcome
       /\ error' = r.error
       /\ logged' = r.logged
       /\ batchErrors' = r.batchErrors
       /\ calls' = r.calls
       /\ result' = <<>>
       /\ tbl' = r.table
       /\ uuids' = r.uuids
       /\ inserts' = inserts + 1
       /\ UNCHANGED <<others, chat, speech, store, connection, searches>>

AddDocuments(documents, clearTable, up) ==
  /\ op # "new"
  /\ searches = 0
  /\ inserts < MaxInserts
  /\ \E r \in {AddDocumentsRun(tbl, uuids, documents, clearTable, up)} :
       LET metadatas == Some([i \in 1..Len(documents) |-> documents[i].metadata])
       IN /\ op' = "addDocuments"
          /\ args' = [texts |-> [i \in 1..Len(documents) |-> documents[i].pageContent],
                      metadatas |-> metadatas, ids |-> None, up |-> up, drawn |-> uuids,
                      clearTable |-> clearTable]
          /\ outcome' = r.outcome
          /\ error' = r.error
          /\ logged' = r.logged
          /\ batchErrors' = r.batchErrors
          /\ calls' = r.calls
          /\ result' = <<>>
          /\ tbl' = r.table
          /\ uuids' = r.uuids
          /\ inserts' = inserts + 1
          /\ UNCHANGED <<others, chat, speech, store, connection, searches>>

SimilaritySearchVectorWithScore(q, k, f) ==
  /\ op # "new"
  /\ searches < MaxSearches
  /\ \E r \in {SearchVectorRun(q, k, f)} :
       /\ op' = "searchVector"
       /\ args' = [q |-> q, k |-> k, filter |-> f]
       /\ outcome' = r.outcome
       /\ error' = r.error
       /\ logged' = <<>>
       /\ batchErrors' = <<>>
       /\ calls' = r.calls
       /\ result' = r.result
       /\ searches' = searches + 1
       /\ UNCHANGED <<others, chat, speech, store, connection, tbl, uuids, inserts>>

SimilaritySearch(text, k, f, up) ==
  /\ op # "new"
  /\ searches < MaxSearches
  /\ \E r \in {SearchRun(text, k, f, up)} :
       /\ op' = "search"
       /\ args' = [text |-> text, k |-> k, filter |-> f, up |-> up]
       /\ outcome' = r.outcome
       /\ error' = r.error
       /\ logged' = <<>>
       /\ batchErrors' = <<>>
       /\ calls' = r.calls
       /\ result' = r.result
       /\ searches' = searches + 1
       /\ UNCHANGED <<others, chat, speech, store, connection, tbl, uuids, inserts>>

\* ------------------------------------------------------------------ inputs
Seqs(S, n) == UNION {[1..m -> S] : m \in 0..n}
InsertOps == {"addTexts", "addDocuments"}

\* A run uses one assignment of ids: an insert after the first repeats the ids
\* and metadatas of the one before it, with any texts.
Repeat(S, last) == IF op \in InsertOps THEN {last} ELSE S
Metadatas(documents) == Some([i \in 1..Len(documents) |-> documents[i].metadata])
RepeatDocuments(S) ==
  {d \in S : op \in InsertOps => (args.ids = None /\ Metadatas(d) = args.metadatas)}

Clients == {"connection", "pool", "invalid"}
MetaId(v) == << <<"id", v>> >>
TextLists == Seqs({"x", ""}, MaxTexts)
IdArgs == {None} \cup {Some(l) : l \in Seqs({"a"}, MaxTexts)}
MetadataArgs == {None} \cup {Some(l) : l \in Seqs({<<>>, MetaId("a")}, MaxTexts)}
DocumentLists ==
  Seqs({[pageContent |-> "x", metadata |-> <<>>], [pageContent |-> "", metadata |-> <<>>],
        [pageContent |-> "x", metadata |-> MetaId("a")]}, MaxTexts)

ScenarioTexts == Seqs({"x"}, MaxIds) \cup Seqs({"y"}, MaxIds)
ScenarioIds == {None} \cup {Some(l) : l \in Seqs({"a", "b", "c"}, MaxIds)}
ScenarioMetadatas ==
  {None} \cup {Some(l) : l \in Seqs({<<>>, MetaId("a"), MetaId("b"), MetaId("c")}, MaxTexts)}

SearchTexts == Seqs({"x", "y", ""}, MaxTexts)
SearchMetadatas == {None, Some(<<MetaId("a")>>), Some(<<MetaId("a"), <<>> >>)}
Strategies == {None, Some("COSINE"), Some("DOT_PRODUCT"), Some("MANHATTAN"), Some("toString")}
Filters == {None, Some(MetaId("a"))}
QueryVectors == {<<1, 0>>, <<0, 1>>, <<2, 2>>, <<1, 0, 0>>}

\* The digests of a run, computed once.
Digests == {[src \in HashedStrings |-> HashId(src)]}

\* ========================================================================
\* OCI Speech transcription node (SpeechTranscriptionOci.execute), one item.
\* The speech service, the object storage bucket and the clock are the
\* environment.  Strings that are cut, searched or re-cased are kept as
\* sequences of characters.
\* ========================================================================

\* ------------------------------------------------------------------ bounds
MaxWait == 1        \* largest maxWaitMinutes a caller sets explicitly
MaxObjects == 2     \* objects in the output bucket
TickMs == 60000     \* granularity of the clock, in ms

\* ---------------------------------------------------------- string helpers
\* s.toLowerCase()
lower(s) ==
  LET LowerChar(c) ==
        CASE c = "J" -> "j" [] c = "S" -> "s" [] c = "O" -> "o" [] c = "N" -> "n"
          [] c = "R" -> "r" [] c = "A" -> "a" [] c = "C" -> "c" [] c = "L" -> "l"
          [] c = "E" -> "e" [] OTHER -> c
  IN [i \in 1..Len(s) |-> LowerChar(s[i])]

\* String(modelType).toUpperCase()
ModelToUpperCase(s) ==
  LET UpperOf(c) ==
        CASE c = "o" -> "O" [] c = "r" -> "R" [] c = "a" -> "A" [] c = "c" -> "C"
          [] c = "l" -> "L" [] c = "e" -> "E" [] OTHER -> c
  IN [i \in 1..Len(s) |-> UpperOf(s[i])]

\* s.endsWith(t), s.startsWith(t), s.includes(t)
EndsWith(s, t) == Len(t) <= Len(s) /\ SubSeq(s, Len(s) - Len(t) + 1, Len(s)) = t
StartsWith(s, t) == Len(t) <= Len(s) /\ SubSeq(s, 1, Len(t)) = t
Includes(s, t) == \E i \in 1..(Len(s) - Len(t) + 1) : SubSeq(s, i, i + Len(t) - 1) = t

\* s.split('.').pop(): what follows the last '.', all of s if it has none
SplitPop(s) ==
  LET dots == {i \in 1..Len(s) : s[i] = "."}
  IN IF dots = {} THEN s
     ELSE SubSeq(s, (CHOOSE i \in dots : \A j \in dots : j <= i) + 1, Len(s))

\* a ?? b on optional values, and a || b on optional strings
Coalesce(a, b) == IF IsSome(a) THEN a ELSE b
TruthyStr(o) == IsSome(o) /\ Get(o) # <<>>
OrElse(a, b) == IF TruthyStr(a) THEN a ELSE b

\* ------------------------------------------------------ what the item asks
\* lines 200-213: modelType, upper-cased when it is not empty, outputType, and
\* the options collection with its defaults applied
Requested(p) ==
  [modelType |-> IF p.modelType # <<>> THEN ModelToUpperCase(p.modelType) ELSE p.modelType,
   outputType |-> p.outputType,
   languageCode |-> OrElse(p.options.languageCode, None),
   outputPrefix |->
     Get(Coalesce(p.options.outputPrefix,
                  Some(<<"t", "r", "a", "n", "s", "c", "r", "i", "p", "t", "i", "o", "n", "s",
                         "/">>))),
   pollIntervalSeconds |-> Get(Coalesce(p.options.pollIntervalSeconds, Some(2))),
   maxWaitMinutes |-> Get(Coalesce(p.options.maxWaitMinutes, Some(30))),
   strictOptions |-> Get(Coalesce(p.options.strictOptions, Some(TRUE)))]

\* ------------------------------------------------------------- the poll loop
\* line 289
Terminal == {"SUCCEEDED", "FAILED", "CANCELED"}

\* A call made to sleep, to the speech client or to the object client.
Request(fn, arg) == [fn |-> fn, arg |-> arg]

\* An error execute rejects with: the catch of lines 455-457 keeps the message.
NodeError(message, description) == [message |-> message, description |-> description]

\* A variant of the delay that passes the seconds as milliseconds.
sleepMsUnscaled(p) == Requested(p).pollIntervalSeconds

\* line 293: the argument of sleep
sleepMs(p) == Requested(p).pollIntervalSeconds * 1000

\* The test of line 290 against a clock that never passes the deadline.
DeadlinePassedNever(t, dl) == FALSE

\* line 290: Date.now() > deadline
DeadlinePassed(t, dl) == t > dl

\* lines 318-321
prefixesToTry(outputPrefix, shortId) ==
  LET base == IF EndsWith(outputPrefix, <<"/">>) THEN outputPrefix ELSE outputPrefix \o <<"/">>
  IN <<base, base \o <<"j", "o", "b", "-">> \o shortId \o <<"/">>, base \o shortId \o <<"/">>>>

\* lines 289-326: from the test of the while loop to the next await, with
\* lifecycleState ls, at time t.  Gives the await reached and what was called
\* or raised on the way.
WhileLoop(ls, t, dl, id, p, reqs) ==
  IF ls \notin Terminal
  THEN IF DeadlinePassed(t, dl)
       THEN [pc |-> "done", wake |-> 0, requests |-> reqs,
             thrown |-> Some(NodeError(<<"Timed out waiting for transcription job to complete">>, None))]
       ELSE [pc |-> "sleep", wake |-> t + sleepMs(p),
             requests |-> Append(reqs, Request("sleep", sleepMs(p))),
             thrown |-> None]
  ELSE IF ls # "SUCCEEDED"
       THEN [pc |-> "done", wake |-> 0, requests |-> reqs,
             thrown |-> Some(NodeError(<<"Transcription job did not succeed. State: ", ls>>, None))]
       ELSE [pc |-> "listObjects", wake |-> 0,
             requests |-> Append(reqs, Request("listObjects",
                                   prefixesToTry(Requested(p).outputPrefix, SplitPop(id))[1])),
             thrown |-> None]

\* ------------------------------------------------------ locating the artifact
\* objectClient.listObjects({prefix}) of the service: the objects whose name
\* starts with the prefix, in listing order
ListObjectsResponse(b, prefix) == SelectSeq(b, LAMBDA n : StartsWith(n, prefix))

\* lines 335-342: first occurrences only, nameless objects dropped
RECURSIVE Dedupe(_, _)
Dedupe(objs, seen) ==
  IF objs = <<>> THEN <<>>
  ELSE IF Head(objs) = <<>> \/ Head(objs) \in seen THEN Dedupe(Tail(objs), seen)
  ELSE <<Head(objs)>> \o Dedupe(Tail(objs), seen \cup {Head(objs)})

\* line 345
isJson(s) == EndsWith(lower(s), <<".", "j", "s", "o", "n">>)

\* Array.prototype.find
Find(objs, P(_)) ==
  LET hits == {i \in 1..Len(objs) : P(objs[i])}
  IN IF hits = {} THEN None ELSE Some(objs[CHOOSE i \in hits : \A j \in hits : i <= j])

\* A variant of the choice that takes any JSON object first.
jsonObjectNameAnyFirst(objs, shortId) == Find(objs, isJson)

\* lines 346-349
jsonObjectNameOf(objs, shortId) ==
  LET preferJob == Find(objs, LAMBDA n : isJson(n) /\ Includes(n, <<"j", "o", "b", "-">> \o shortId))
      preferShort == Find(objs, LAMBDA n : isJson(n) /\ Includes(n, shortId))
      anyJson == Find(objs, isJson)
  IN OrElse(preferJob, OrElse(preferShort, anyJson))

\* ------------------------------------------------------------ strict options
\* JSON.parse(bodyStr): None when the text is not JSON
JsonParseBody(body) == IF body.json THEN Some(body.value) ELSE None

\* x?.modelDetails?.modelType and x?.modelDetails?.languageCode, x optional
modelTypeIn(x) ==
  IF IsSome(x) /\ IsSome(Get(x).modelDetails) THEN Get(Get(x).modelDetails).modelType ELSE None
languageCodeIn(x) ==
  IF IsSome(x) /\ IsSome(Get(x).modelDetails) THEN Get(Get(x).modelDetails).languageCode ELSE None

\* lines 421-437: the problems found by the strict check
Problems(p, parsed, details) ==
  LET modelType == Requested(p).modelType
      languageCode == Requested(p).languageCode
      resultModel == modelTypeIn(parsed)
      resultLang == languageCodeIn(parsed)
      jobModel == modelTypeIn(details)
      jobLang == languageCodeIn(details)
      appliedModel == Coalesce(resultModel, jobModel)
      appliedLang == Coalesce(resultLang, jobLang)
      modelMismatch == /\ TruthyStr(appliedModel) /\ modelType # <<>>
                       /\ ModelToUpperCase(Get(appliedModel)) # ModelToUpperCase(modelType)
      langMismatch == /\ TruthyStr(languageCode) /\ TruthyStr(appliedLang)
                      /\ Get(appliedLang) # Get(languageCode)
      jobVsResultMismatch ==
        \/ /\ TruthyStr(jobModel) /\ TruthyStr(resultModel)
           /\ ModelToUpperCase(Get(jobModel)) # ModelToUpperCase(Get(resultModel))
        \/ /\ TruthyStr(jobLang) /\ TruthyStr(resultLang)
           /\ Get(jobLang) # Get(resultLang)
  IN (IF modelMismatch THEN <<"modelType">> ELSE <<>>)
     \o (IF langMismatch THEN <<"languageCode">> ELSE <<>>)
     \o (IF jobVsResultMismatch THEN <<"job vs result">> ELSE <<>>)

\* lines 412-454: from the body of the object to the end of the item
Finish(p, id, name, body, details) ==
  LET parsed == JsonParseBody(body)
  IN IF ~ IsSome(parsed)
     THEN [thrown |-> Some(NodeError(<<"Downloaded object is not valid JSON">>, None)),
           returnItems |-> <<>>]
     ELSE IF Requested(p).strictOptions /\ Problems(p, Get(parsed), details) # <<>>
     THEN [thrown |-> Some(NodeError(<<"Transcription job did not apply requested options">>,
                                     Some(Problems(p, Get(parsed), details)))),
           returnItems |-> <<>>]
     ELSE [thrown |-> None,
           returnItems |->
             <<[json |-> [jobId |-> id, objectName |-> name, result |-> Get(parsed),
                          appliedModelType |->
                            Coalesce(modelTypeIn(Get(parsed)), modelTypeIn(details)),
                          appliedLanguageCode |->
                            Coalesce(languageCodeIn(Get(parsed)), languageCodeIn(details)),
                          jobReportedModelType |-> modelTypeIn(details),
                          jobReportedLanguageCode |-> languageCodeIn(details)]]>>]

\* ------------------------------------------------------------------- inputs
\* The strings of the runs: model types, language codes and job ids.
Sample ==
  [oracle |-> <<"o", "r", "a", "c", "l", "e">>,
   whisper |-> <<"W", "H", "I", "S", "P", "E", "R", "_", "M", "E", "D", "I", "U", "M">>,
   en |-> <<"e", "n", "-", "U", "S">>,
   es |-> <<"e", "s", "-", "E", "S">>,
   jobAb |-> <<"o", "c", "i", "d", "1", ".", "j", "o", "b", ".", "a", "b">>,
   jobCd |-> <<"o", "c", "i", "d", "1", ".", "j", "o", "b", ".", "c", "d">>]

Params(modelType, outputType, languageCode, outputPrefix, pollIntervalSeconds, maxWaitMinutes,
       strictOptions) ==
  [modelType |-> modelType, outputType |-> outputType,
   options |-> [languageCode |-> languageCode, outputPrefix |-> outputPrefix,
                pollIntervalSeconds |-> pollIntervalSeconds,
                maxWaitMinutes |-> maxWaitMinutes, strictOptions |-> strictOptions]]

\* The answers of the speech client: the job as the service describes it, or
\* a rejection.
Resolved(id, ls, modelDetails) ==
  [ok |-> TRUE, job |-> [id |-> id, lifecycleState |-> ls, modelDetails |-> modelDetails]]
Rejected == [ok |-> FALSE]

\* The answers of getObject: a text that is not JSON, the JSON text null, or
\* the JSON text of a transcription with the modelDetails it reports.
Body(kind, modelDetails) ==
  [ok |-> TRUE,
   body |-> [json |-> kind # "text",
             value |-> IF kind = "transcription"
                       THEN Some([modelDetails |-> modelDetails, transcriptions |-> "words"])
                       ELSE None]]

\* The buckets an item can meet: results of its job and of others under its
\* output prefix, other files, and objects elsewhere, in any listing order.
BaseOf(p) == prefixesToTry(Requested(p).outputPrefix, <<>>)[1]
OneResult(p) == {<<BaseOf(p) \o <<"j", "o", "b", "-", "a", "b", "/", "x", ".", "j", "s", "o", "n">>>>}
Buckets(base) ==
  LET ObjectNames ==
        {base \o <<"j", "o", "b", "-", "a", "b", "/", "x", ".", "j", "s", "o", "n">>,
         base \o <<"j", "o", "b", "-", "a", "b", "/", "x", ".", "s", "r", "t">>,
         base \o <<"j", "o", "b", "-", "a", "b", "/", "X", ".", "J", "S", "O", "N">>,
         base \o <<"a", "b", "/", "y", ".", "j", "s", "o", "n">>,
         base \o <<"j", "o", "b", "-", "c", "d", "/", "x", ".", "j", "s", "o", "n">>,
         base \o <<"z", ".", "j", "s", "o", "n">>,
         <<"u", "/", "j", "o", "b", "-", "a", "b", "/", "w", ".", "j", "s", "o", "n">>}
  IN {b \in Seqs(ObjectNames, MaxObjects) : \A i, j \in 1..Len(b) : i # j => b[i] # b[j]}

PollIntervals == {None, Some(90)}
WaitOptions == {None} \cup {Some(w) : w \in 0..MaxWait}

\* The clock stops here: past every deadline and every timer of a run.
MaxNow ==
  LET Largest(S) == CHOOSE x \in S : \A y \in S : y <= x
      Of(i, w) == Requested(Params(<<>>, "json", None, None, i, w, None))
  IN Largest({Of(None, w).maxWaitMinutes : w \in WaitOptions}) * 60 * 1000
     + Largest({Of(i, None).pollIntervalSeconds : i \in PollIntervals}) * 1000
     + TickMs

\* The item before execute reaches it, and the store while the node runs.
ChatIdle ==
  /\ instances = <<>> /\ bindCall = None /\ chatCalls = <<>>
  /\ chatModel = <<>> /\ chatPc = "idle" /\ messages = <<>> /\ chatRequest = None
  /\ generation = None

EmbedIdle ==
  /\ embedOp = "none" /\ embedPc = "idle" /\ embedArg = <<>> /\ embedQueue = <<>>
  /\ batchResults = <<>> /\ embedSent = <<>> /\ embedResponse = None /\ embedReturn = None

KeyIdle == keyInput = <<>> /\ keyOutput = None /\ keyPasses = 0

WrapIdle ==
  /\ wrapKind = "none" /\ wrapCalls = <<>> /\ inputData = <<>> /\ outputData = <<>>
  /\ targetCalls = <<>>

RaceIdle == initPc = <<>> /\ initDim = <<>> /\ probedDim = <<>> /\ creations = <<>>

OthersIdle == EmbedIdle /\ KeyIdle /\ WrapIdle /\ RaceIdle

SpeechIdle ==
  /\ params = <<>> /\ pc = "idle" /\ now = 0 /\ wake = 0 /\ deadline = 0 /\ jobId = <<>>
  /\ lifecycleState = "" /\ finalJobDetails = None /\ job = None /\ bucket = <<>>
  /\ listed = 0 /\ allObjects = <<>> /\ getObjResp = None /\ requests = <<>> /\ thrown = None
  /\ returnItems = <<>>

StoreIdle ==
  /\ client = "connection" /\ query = None /\ distanceStrategy = "" /\ filter = None
  /\ connection = None /\ modelDim = 0 /\ tbl = NoTable /\ uuids = 0 /\ digest = <<>>
  /\ inserts = 0 /\ searches = 0 /\ op = "none" /\ args = <<>> /\ outcome = "ok"
  /\ error = "" /\ logged = <<>> /\ batchErrors = <<>> /\ calls = <<>> /\ result = <<>>

\* lines 195-261: the item's parameters are read and createTranscriptionJob is called
Started(p) ==
  /\ StoreIdle /\ ChatIdle /\ OthersIdle
  /\ params = p /\ pc = "createTranscriptionJob" /\ now = 0 /\ wake = 0 /\ deadline = 0
  /\ jobId = <<>> /\ lifecycleState = "" /\ finalJobDetails = None /\ job = None
  /\ bucket = <<>> /\ listed = 0 /\ allObjects = <<>> /\ getObjResp = None /\ thrown = None
  /\ returnItems = <<>>
  /\ requests = <<Request("createTranscriptionJob",
                          [modelType |-> Requested(p).modelType,
                           languageCode |-> Requested(p).languageCode,
                           prefix |-> Requested(p).outputPrefix])>>

\* ------------------------------------------------------------------ actions
\* A variant of the test that never returns the job id at once.
ReturnsJobIdNever(outputType) == FALSE

\* line 279
ReturnsJobId(outputType) == outputType = "job_id"

\* lines 257-326: the answer to createTranscriptionJob, down to the next await
Create(p, resp, t) ==
  LET idle == [pc |-> "done", wake |-> 0, deadline |-> 0, jobId |-> <<>>, lifecycleState |-> "",
               requests |-> requests, thrown |-> None, returnItems |-> <<>>]
  IN IF ~ resp.ok
     THEN [idle EXCEPT !.thrown = Some(NodeError(<<"Failed to create transcription job">>,
                                                 Some(<<"details">>)))]
     ELSE IF ~ TruthyStr(resp.job.id)
     THEN [idle EXCEPT !.thrown =
             Some(NodeError(<<"Failed to create transcription job: missing job ID in response">>,
                            None))]
     ELSE IF ReturnsJobId(Requested(p).outputType)
     THEN [idle EXCEPT !.jobId = Get(resp.job.id),
                       !.returnItems = <<[json |-> [jobId |-> Get(resp.job.id)]]>>]
     ELSE LET dl == t + Requested(p).maxWaitMinutes * 60 * 1000
              w == WhileLoop(resp.job.lifecycleState, t, dl, Get(resp.job.id), p, requests)
          IN [pc |-> w.pc, wake |-> w.wake, deadline |-> dl, jobId |-> Get(resp.job.id),
              lifecycleState |-> resp.job.lifecycleState, requests |-> w.requests,
              thrown |-> w.thrown, returnItems |-> <<>>]

\* What the service has written to the bucket when it answers with this state.
Written(resp, objects) ==
  IF resp.ok /\ resp.job.lifecycleState = "SUCCEEDED" THEN objects ELSE {bucket}

CreateTranscriptionJob(resp, written) ==
  /\ pc = "createTranscriptionJob"
  /\ \E r \in {Create(params, resp, now)} :
       /\ pc' = r.pc
       /\ wake' = r.wake
       /\ deadline' = r.deadline
       /\ jobId' = r.jobId
       /\ lifecycleState' = r.lifecycleState
       /\ requests' = r.requests
       /\ thrown' = r.thrown
       /\ returnItems' = r.returnItems
  /\ job' = IF resp.ok THEN Some(resp.job) ELSE None
  /\ bucket' = written
  /\ UNCHANGED <<params, now, finalJobDetails, listed, allObjects, getObjResp>>
  /\ UNCHANGED <<storeVars, chat, others>>

\* The clock advances while the item waits for its timer or for the service.
Tick ==
  /\ pc \in {"sleep", "getTranscriptionJob"}
  /\ now < MaxNow
  /\ now <= deadline \/ now < wake
  /\ now' = now + TickMs
  /\ UNCHANGED <<params, pc, wake, deadline, jobId, lifecycleState, finalJobDetails, job,
                 bucket, listed, allObjects, getObjResp, requests, thrown, returnItems>>
  /\ UNCHANGED <<storeVars, chat, others>>

\* lines 293-296: the timer of sleep fires, never early; getTranscriptionJob is called
SleepResolves ==
  /\ pc = "sleep"
  /\ now >= wake
  /\ pc' = "getTranscriptionJob"
  /\ requests' = Append(requests, Request("getTranscriptionJob", jobId))
  /\ UNCHANGED <<params, now, wake, deadline, jobId, lifecycleState, finalJobDetails, job,
                 bucket, listed, allObjects, getObjResp, thrown, returnItems>>
  /\ UNCHANGED <<storeVars, chat, others>>

\* lines 296-326: the answer to getTranscriptionJob, down to the next await
GetTranscriptionJob(resp, written) ==
  /\ pc = "getTranscriptionJob"
  /\ IF ~ resp.ok
     THEN /\ pc' = "done"
          /\ thrown' = Some(NodeError(<<"Failed to get transcription job status">>,
                                      Some(<<"details">>)))
          /\ UNCHANGED <<wake, lifecycleState, finalJobDetails, requests>>
     ELSE \E w \in {WhileLoop(resp.job.lifecycleState, now, deadline, jobId, params, requests)} :
            /\ pc' = w.pc
            /\ wake' = w.wake
            /\ requests' = w.requests
            /\ thrown' = w.thrown
            /\ finalJobDetails' = Some(resp.job)
            /\ lifecycleState' = resp.job.lifecycleState
  /\ bucket' = written
  /\ UNCHANGED <<params, now, deadline, jobId, job, listed, allObjects, getObjResp,
                 returnItems>>
  /\ UNCHANGED <<storeVars, chat, others>>

\* lines 326-363: the answer to one listObjects, down to the next await
ListObjects(ok) ==
  /\ pc = "listObjects"
  /\ IF ~ ok
     THEN /\ pc' = "done"
          /\ thrown' = Some(NodeError(<<"listObjects failed">>, None))
          /\ UNCHANGED <<listed, allObjects, requests>>
     ELSE LET prefixes == prefixesToTry(Requested(params).outputPrefix, SplitPop(jobId))
              objects == allObjects \o ListObjectsResponse(bucket, prefixes[listed + 1])
              name == jsonObjectNameOf(Dedupe(objects, {}), SplitPop(jobId))
          IN /\ listed' = listed + 1
             /\ IF listed + 1 < Len(prefixes)
                THEN /\ allObjects' = objects
                     /\ requests' = Append(requests, Request("listObjects", prefixes[listed + 2]))
                     /\ UNCHANGED <<pc, thrown>>
                ELSE /\ allObjects' = Dedupe(objects, {})
                     /\ IF ~ TruthyStr(name)
                        THEN /\ pc' = "done"
                             /\ thrown' =
                                  Some(NodeError(<<"Could not locate JSON result object for this job in the specified bucket/prefix">>, None))
                             /\ UNCHANGED requests
                        ELSE /\ pc' = "getObject"
                             /\ requests' = Append(requests, Request("getObject", Get(name)))
                             /\ UNCHANGED thrown
  /\ UNCHANGED <<params, now, wake, deadline, jobId, lifecycleState, finalJobDetails, job,
                 bucket, getObjResp, returnItems>>
  /\ UNCHANGED <<storeVars, chat, others>>

\* lines 359-454: the answer to getObject, down to the end of the item
GetObject(resp) ==
  /\ pc = "getObject"
  /\ pc' = "done"
  /\ getObjResp' = IF resp.ok THEN Some(resp.body) ELSE None
  /\ IF ~ resp.ok
     THEN /\ thrown' = Some(NodeError(<<"getObject failed">>, None))
          /\ UNCHANGED returnItems
     ELSE \E r \in {Finish(params, jobId, requests[Len(requests)].arg, resp.body,
                           finalJobDetails)} :
            /\ thrown' = r.thrown
            /\ returnItems' = r.returnItems
  /\ UNCHANGED <<params, now, wake, deadline, jobId, lifecycleState, finalJobDetails, job,
                 bucket, listed, allObjects, requests>>
  /\ UNCHANGED <<storeVars, chat, others>>

\* ----------------------------------------------------------- specifications
\* Any wait, interval and output type; any course of the job.
InitPoll ==
  \E outputType \in {"json", "job_id"}, interval \in PollIntervals, wait \in WaitOptions :
    Started(Params(Sample.oracle, outputType, None, Some(<<"t">>), interval, wait, Some(FALSE)))

NextPoll ==
  LET created == {Rejected, Resolved(None, "ACCEPTED", None)}
                 \cup {Resolved(Some(Sample.jobAb), ls, None) :
                         ls \in {"ACCEPTED", "SUCCEEDED", "FAILED"}}
      polled == {Rejected}
                \cup {Resolved(Some(Sample.jobAb), ls, None) :
                        ls \in {"IN_PROGRESS", "SUCCEEDED", "FAILED", "CANCELED"}}
      buckets == OneResult(params) \cup {<<>>}
  IN \/ \E resp \in created : \E written \in Written(resp, buckets) :
          CreateTranscriptionJob(resp, written)
     \/ Tick
     \/ SleepResolves
     \/ \E resp \in polled : \E written \in Written(resp, buckets) :
          GetTranscriptionJob(resp, written)
     \/ \E ok \in BOOLEAN : ListObjects(ok)
     \/ \E resp \in {Rejected, Body("text", None), Body("null", None),
                     Body("transcription", None)} :
          GetObject(resp)

SpecPoll == InitPoll /\ [][NextPoll]_vars

\* The same runs where the clock advances, timers fire and the services
\* answer: a step is taken whenever one can be.
SpecPollFair == InitPoll /\ [][NextPoll]_vars /\ WF_vars(NextPoll)

\* A job that succeeds at its first poll; any bucket, prefix and job id.
InitArtifact ==
  \E outputPrefix \in {None, Some(<<"t">>), Some(<<"t", "/">>)} :
    Started(Params(Sample.oracle, "json", None, outputPrefix, None, Some(1), Some(FALSE)))

NextArtifact ==
  \/ \E id \in {Sample.jobAb, Sample.jobCd} :
       CreateTranscriptionJob(Resolved(Some(id), "ACCEPTED", None), bucket)
  \/ Tick
  \/ SleepResolves
  \/ \E written \in Buckets(BaseOf(params)) :
       GetTranscriptionJob(Resolved(Some(jobId), "SUCCEEDED", None), written)
  \/ \E ok \in BOOLEAN : ListObjects(ok)
  \/ \E resp \in {Rejected, Body("transcription", None)} : GetObject(resp)

SpecArtifact == InitArtifact /\ [][NextArtifact]_vars

\* Any requested and reported model and language, strict or not.
InitStrict ==
  \E m \in {Sample.oracle, Sample.whisper}, l \in {None, Some(<<>>), Some(Sample.en)},
     s \in {None, Some(TRUE), Some(FALSE)} :
    Started(Params(m, "json", l, Some(<<"t">>), None, Some(1), s))

NextStrict ==
  LET reported ==
        {None} \cup {Some([modelType |-> m, languageCode |-> l]) :
                       m \in {None, Some(ModelToUpperCase(Sample.oracle)), Some(Sample.whisper)},
                       l \in {None, Some(Sample.en), Some(Sample.es)}}
  IN \/ \E ls \in {"ACCEPTED", "SUCCEEDED"}, md \in reported, written \in OneResult(params) :
          CreateTranscriptionJob(Resolved(Some(Sample.jobAb), ls, md), written)
     \/ Tick
     \/ SleepResolves
     \/ \E md \in reported, written \in OneResult(params) :
          GetTranscriptionJob(Resolved(Some(Sample.jobAb), "SUCCEEDED", md), written)
     \/ ListObjects(TRUE)
     \/ \E md \in reported : GetObject(Body("transcription", md))

SpecStrict == InitStrict /\ [][NextStrict]_vars

\* ========================================================================
\* OCI Generative AI chat model (ChatOciGenerativeAi._generate): a
\* conversation is translated into a chat request, Cohere or generic, and the
\* response of the service into an assistant message.  Tool arguments and
\* tool outputs are metadata-like objects; their JSON text is a sequence of
\* lexical pieces.
\* ========================================================================

\* ------------------------------------------------------------------ bounds
MaxMessages == 4    \* longest conversation passed to _generate

\* ------------------------------------------------------ message translation
\* lines 98-158
toOciGenericApiMessage(m) ==
  CASE m.type = "human" -> [role |-> "USER", content |-> <<[type |-> "TEXT", text |-> m.content]>>]
    [] m.type = "ai" ->
         [role |-> "ASSISTANT", content |-> <<[type |-> "TEXT", text |-> m.content]>>,
          toolCalls |-> [i \in 1..Len(m.tool_calls) |->
                           [id |-> m.tool_calls[i].id, type |-> "FUNCTION",
                            name |-> m.tool_calls[i].name,
                            arguments |-> JsonStringify(m.tool_calls[i].args)]]]
    [] m.type = "system" ->
         [role |-> "SYSTEM", content |-> <<[type |-> "TEXT", text |-> m.content]>>]
    [] m.type = "tool" ->
         [role |-> "TOOL", toolCallId |-> m.tool_call_id,
          content |-> <<[type |-> "TEXT", text |-> m.content]>>]

\* JSON.parse accepts the text of an object; any other text is a SyntaxError.
IsJsonText(text) == text # <<>> /\ text[1] = "{"

\* lines 160-214: array tells the bare list of tool calls an assistant message
\* with tool calls becomes from the wire message the others become
toOciCohereMessage(m) ==
  CASE m.type = "human" -> [array |-> FALSE, value |-> [role |-> "USER", message |-> m.content]]
    [] m.type = "ai" ->
         IF m.tool_calls # <<>>
         THEN [array |-> TRUE, value |-> m.tool_calls]
         ELSE [array |-> FALSE,
               value |-> [role |-> "CHATBOT", message |-> m.content, toolCalls |-> <<>>]]
    [] m.type = "system" ->
         [array |-> FALSE, value |-> [role |-> "SYSTEM", message |-> m.content]]
    [] m.type = "tool" ->
         [array |-> FALSE,
          value |-> [role |-> "TOOL",
                     toolResults |-> <<[call |-> [name |-> m.tool_call_id, parameters |-> <<>>],
                                        outputs |-> JsonParse(m.content)]>>]]

\* A variant that leaves the last user message in the history.
StandaloneKept(clean) ==
  IF clean # <<>> /\ clean[Len(clean)].role = "USER"
  THEN [message |-> clean[Len(clean)].message, chatHistory |-> clean]
  ELSE [message |-> "", chatHistory |-> clean]

\* lines 336, 357-366: the standalone message and the history, without tool results
Standalone(clean) ==
  IF clean # <<>> /\ clean[Len(clean)].role = "USER"
  THEN [message |-> clean[Len(clean)].message, chatHistory |-> SubSeq(clean, 1, Len(clean) - 1)]
  ELSE [message |-> "", chatHistory |-> clean]

\* lines 322-386: the Cohere request of a conversation
CohereChatRequest(ms) ==
  LET ociMessages == [i \in 1..Len(ms) |-> toOciCohereMessage(ms[i])]
      arrays == {i \in 1..Len(ms) : ociMessages[i].array}
      toolCalls == IF arrays = {} THEN <<>>
                   ELSE ociMessages[CHOOSE i \in arrays : \A j \in arrays : j <= i].value
      plain == [i \in 1..Len(ms) |-> IF ociMessages[i].array THEN [role |-> "(array)"]
                                     ELSE ociMessages[i].value]
      toolMessages == SelectSeq(plain, LAMBDA x : x.role = "TOOL")
      ociMessagesClean == SelectSeq(plain, LAMBDA x : x.role \notin {"(array)", "TOOL"})
      Correlated(toolResult) ==
        LET found == {i \in 1..Len(toolCalls) : toolCalls[i].id = toolResult.call.name}
        IN IF found = {} THEN toolResult
           ELSE [toolResult EXCEPT !.call.parameters =
                   toolCalls[CHOOSE i \in found : \A j \in found : i <= j].args]
      toolResults == [i \in 1..Len(toolMessages) |-> Correlated(toolMessages[i].toolResults[1])]
  IN IF toolMessages # <<>>
     THEN [apiFormat |-> "COHERE", message |-> "",
           chatHistory |-> Append(ociMessagesClean, [role |-> "TOOL", toolResults |-> toolResults]),
           toolResults |-> Some(toolResults)]
     ELSE [apiFormat |-> "COHERE", message |-> Standalone(ociMessagesClean).message,
           chatHistory |-> Standalone(ociMessagesClean).chatHistory,
           toolResults |-> None]

\* lines 389-400: the generic request of a conversation
GenericChatRequest(ms) ==
  [apiFormat |-> "GENERIC", messages |-> [i \in 1..Len(ms) |-> toOciGenericApiMessage(ms[i])]]

\* lines 419-426 and 433-441: the tool calls of a response, decoded
CohereToolCalls(toolCalls) ==
  [i \in 1..Len(toolCalls) |->
     [name |-> toolCalls[i].name, args |-> toolCalls[i].parameters, id |-> toolCalls[i].name,
      type |-> "tool_call"]]
GenericToolCalls(toolCalls) ==
  [i \in 1..Len(toolCalls) |->
     [name |-> toolCalls[i].name, args |-> JsonParse(toolCalls[i].arguments),
      id |-> toolCalls[i].id, type |-> "tool_call"]]

\* lines 413-457: the assistant message of a response
AIMessage(response) ==
  [type |-> "ai", content |-> response.text,
   tool_calls |-> IF response.apiFormat = "COHERE" THEN CohereToolCalls(response.toolCalls)
                  ELSE GenericToolCalls(response.toolCalls)]

\* ------------------------------------------------------------------- inputs
\* The tools of the runs, named as the Cohere decoding names them (id = name),
\* and what a conversation is made of.
ToolCallOf(name) ==
  [id |-> name, name |-> name, type |-> "tool_call",
   args |-> IF name = "a" THEN << <<"city", "Oslo">> >> ELSE << <<"q", "x">>, <<"n", "1">> >>]
ChatMessages ==
  {[type |-> "human", content |-> c] : c \in {"hi", "more"}}
  \cup {[type |-> "system", content |-> "sys"], [type |-> "ai", content |-> "ok", tool_calls |-> <<>>]}
  \cup {[type |-> "ai", content |-> "", tool_calls |-> <<ToolCallOf(n)>>] : n \in {"a", "b"}}
  \cup {[type |-> "tool", tool_call_id |-> n, content |-> JsonStringify(<< <<"out", n>> >>)] :
          n \in {"a", "b"}}
  \cup {[type |-> "tool", tool_call_id |-> "a", content |-> <<"sunny">>]}

\* The responses of the service: a text, or the call of a tool.
ChatResponses(cohere) ==
  IF cohere
  THEN {[apiFormat |-> "COHERE", text |-> "ok", toolCalls |-> <<>>]}
       \cup {[apiFormat |-> "COHERE", text |-> "",
              toolCalls |-> <<[name |-> n, parameters |-> ToolCallOf(n).args]>>] : n \in {"a", "b"}}
  ELSE {[apiFormat |-> "GENERIC", text |-> "ok", toolCalls |-> <<>>]}
       \cup {[apiFormat |-> "GENERIC", text |-> "",
              toolCalls |-> toOciGenericApiMessage([type |-> "ai", content |-> "",
                                                    tool_calls |-> <<ToolCallOf(n)>>]).toolCalls] :
               n \in {"a", "b"}}

\* ------------------------------------------------------------------ actions
\* lines 313-411: _generate(ms) builds the request and calls client.chat; a
\* tool message whose content is not JSON makes JSON.parse throw
Generate(ms) ==
  /\ chatPc = "idle"
  /\ messages' = ms
  /\ LET cohere == StartsWith(chatModel, <<"c", "o", "h", "e", "r", "e">>)
     IN IF cohere /\ \E i \in 1..Len(ms) : ms[i].type = "tool" /\ ~ IsJsonText(ms[i].content)
        THEN /\ chatPc' = "done"
             /\ generation' = Some([thrown |-> "SyntaxError"])
             /\ UNCHANGED <<chatRequest, chatCalls>>
        ELSE /\ chatPc' = "chat"
             /\ chatRequest' = Some(IF cohere THEN CohereChatRequest(ms) ELSE GenericChatRequest(ms))
             /\ chatCalls' = Append(chatCalls, Get(chatRequest'))
             /\ UNCHANGED generation
  /\ UNCHANGED <<instances, bindCall, chatModel, storeVars, speech, others>>

\* A variant that passes the request once more when client.chat rejects.
ChatResolvesRetry(ok, response) ==
  /\ chatPc = "chat"
  /\ IF ok \/ Len(chatCalls) > 1
     THEN /\ chatPc' = "done"
          /\ generation' = Some(IF ok THEN AIMessage(response) ELSE [thrown |-> response])
          /\ UNCHANGED chatCalls
     ELSE /\ chatCalls' = Append(chatCalls, Get(chatRequest))
          /\ UNCHANGED <<chatPc, generation>>
  /\ UNCHANGED <<instances, bindCall, chatModel, messages, chatRequest, storeVars, speech, others>>

\* lines 411-457: client.chat answers with a response, or rejects with an
\* error that _generate does not catch
ChatResolves(ok, response) ==
  /\ chatPc = "chat"
  /\ chatPc' = "done"
  /\ generation' = Some(IF ok THEN AIMessage(response) ELSE [thrown |-> response])
  /\ UNCHANGED <<instances, bindCall, chatCalls, chatModel, messages, chatRequest, storeVars,
                 speech, others>>

\* ----------------------------------------------------------- specifications
\* Any conversation of at most MaxMessages messages, to either family of models.
InitChat ==
  /\ StoreIdle /\ SpeechIdle /\ OthersIdle
  /\ instances = <<>> /\ bindCall = None /\ chatCalls = <<>>
  /\ chatModel \in {<<"c", "o", "h", "e", "r", "e", ".", "r">>, <<"m", "e", "t", "a", ".", "l">>}
  /\ chatPc = "idle" /\ messages = <<>> /\ chatRequest = None /\ generation = None

NextChat ==
  \/ \E n \in (IF chatPc = "idle" THEN 0..MaxMessages ELSE {}) :
       \E ms \in [1..n -> ChatMessages] : Generate(ms)
  \/ \E response \in ChatResponses(StartsWith(chatModel, <<"c", "o", "h", "e", "r", "e">>)) :
       ChatResolves(TRUE, response)
  \/ \E err \in {"timeout", "unauthorized"} : ChatResolves(FALSE, err)

SpecChat == InitChat /\ [][NextChat]_vars

\* ------------------------------------------------------------------ bindTools
MaxTools == 1       \* longest list of tools passed to bindTools
MaxInstances == 3   \* instances constructed in a run

\* lines 29-60: a JSON schema is a record of optional members
jsonSchemaTypeToCohereType(jsonSchema) ==
  IF IsSome(jsonSchema.enum) THEN "str"
  ELSE IF jsonSchema.type = Some("array") THEN "list"
  ELSE IF jsonSchema.type = Some("object") THEN "dict"
  ELSE IF jsonSchema.type = Some("string") THEN "str"
  ELSE IF jsonSchema.type \in {Some("number"), Some("integer")} THEN "float"
  ELSE IF jsonSchema.type = Some("boolean") THEN "bool"
  ELSE "str"

\* lines 63-94: properties, and the result, are lists of <<key, value>> in
\* insertion order
jsonSchemaToCoherePrameters(jsonSchema) ==
  IF jsonSchema.type = Some("object") /\ IsSome(jsonSchema.properties)
  THEN [i \in 1..Len(Get(jsonSchema.properties)) |->
          LET key == Get(jsonSchema.properties)[i][1]
              propertySchema == Get(jsonSchema.properties)[i][2]
          IN <<key,
               [description |-> IF TruthyStr(propertySchema.description)
                                THEN Get(propertySchema.description)
                                ELSE IF TruthyStr(propertySchema.title)
                                THEN Get(propertySchema.title)
                                ELSE <<"Parameter ">> \o key,
                type |-> jsonSchemaTypeToCohereType(propertySchema),
                isRequired |-> TRUE]>>]
  ELSE <<>>

\* lines 251-267: the instance the constructor makes of its fields, with a
\* client of its own
ChatOciGenerativeAi(fields) ==
  [model |-> fields.model, temperature |-> fields.temperature, topP |-> fields.topP,
   topK |-> fields.topK, maxTokens |-> fields.maxTokens,
   frequencyPenalty |-> fields.frequencyPenalty, presencePenalty |-> fields.presencePenalty,
   compartmentId |-> fields.compartmentId, auth |-> fields.auth,
   client |-> [authenticationDetailsProvider |-> fields.auth.authProvider],
   tools |-> fields.tools]

\* A variant that builds function definitions for every model.
bindToolsFieldsGeneric(this, tools) ==
  [this EXCEPT !.tools = Some([i \in 1..Len(tools) |->
                                 [name |-> tools[i].name, description |-> tools[i].description,
                                  parameters |-> tools[i].schema, type |-> "FUNCTION"]])]

\* lines 273-309: the fields bindTools passes to the constructor
bindToolsFields(this, tools) ==
  LET cohereTools ==
        IF StartsWith(this.model, <<"c", "o", "h", "e", "r", "e">>)
        THEN [i \in 1..Len(tools) |->
                [name |-> tools[i].name, description |-> tools[i].description,
                 parameterDefinitions |-> jsonSchemaToCoherePrameters(tools[i].schema)]]
        ELSE <<>>
      genericTools ==
        IF StartsWith(this.model, <<"c", "o", "h", "e", "r", "e">>) THEN <<>>
        ELSE [i \in 1..Len(tools) |->
                [name |-> tools[i].name, description |-> tools[i].description,
                 parameters |-> tools[i].schema, type |-> "FUNCTION"]]
  IN [model |-> this.model, temperature |-> this.temperature,
      frequencyPenalty |-> this.frequencyPenalty, presencePenalty |-> this.presencePenalty,
      topP |-> this.topP, topK |-> this.topK, maxTokens |-> this.maxTokens,
      compartmentId |-> this.compartmentId, auth |-> this.auth,
      tools |-> Some(IF Len(genericTools) > 0 THEN genericTools ELSE cohereTools)]

\* The tools of the runs, each with the JSON schema of its parameters.
Property(type, enum, description, title) ==
  [type |-> type, enum |-> enum, description |-> description, title |-> title,
   properties |-> None]
Tools ==
  {[name |-> "a", description |-> "weather",
    schema |-> [type |-> Some("object"), enum |-> None, description |-> None, title |-> None,
                properties |-> Some(<< <<<<"city">>, Property(Some("string"), None, Some(<<"City">>), None)>>,
                                       <<<<"days">>, Property(Some("integer"), None, None, Some(<<"Days">>))>>,
                                       <<<<"unit">>, Property(None, Some(<<"C", "F">>), None, None)>> >>)]],
   [name |-> "b", description |-> "search",
    schema |-> [type |-> Some("object"), enum |-> None, description |-> None, title |-> None,
                properties |-> Some(<< <<<<"tags">>, Property(Some("array"), None, Some(<<>>), None)>>,
                                       <<<<"opts">>, Property(Some("object"), None, None, None)>>,
                                       <<<<"deep">>, Property(Some("boolean"), None, None, None)>> >>)]],
   [name |-> "c", description |-> "now",
    schema |-> [type |-> Some("string"), enum |-> None, description |-> None, title |-> None,
                properties |-> None]]}

\* The fields of the first instance: either family of models, the generation
\* parameters all omitted or all given.
Fields ==
  {[model |-> m, temperature |-> g[1], topP |-> g[2], topK |-> g[3], maxTokens |-> g[4],
    frequencyPenalty |-> g[5], presencePenalty |-> g[6], compartmentId |-> "ocid1.compartment",
    auth |-> [authProvider |-> "provider"], tools |-> None] :
     m \in {<<"c", "o", "h", "e", "r", "e", ".", "r">>, <<"m", "e", "t", "a", ".", "l">>},
     g \in {<<None, None, None, None, None, None>>,
            <<Some(1), Some(2), Some(0), Some(600), Some(3), Some(4)>>}}

\* lines 273-310: bindTools(tools) on the instance at self constructs an instance
BindTools(self, tools) ==
  /\ Len(instances) < MaxInstances
  /\ instances' = Append(instances, ChatOciGenerativeAi(bindToolsFields(instances[self], tools)))
  /\ bindCall' = Some([this |-> self, tools |-> tools, returned |-> Len(instances) + 1])
  /\ UNCHANGED <<chatCalls, chatModel, chatPc, messages, chatRequest, generation, storeVars,
                 speech, others>>

\* An instance with any fields, and any calls of bindTools on the instances there are.
InitBind ==
  /\ StoreIdle /\ SpeechIdle /\ OthersIdle
  /\ \E fields \in Fields : instances = <<ChatOciGenerativeAi(fields)>>
  /\ bindCall = None /\ chatCalls = <<>>
  /\ chatModel = <<>> /\ chatPc = "idle" /\ messages = <<>> /\ chatRequest = None
  /\ generation = None

NextBind ==
  \E self \in 1..Len(instances) : \E n \in 0..MaxTools : \E tools \in [1..n -> Tools] :
    BindTools(self, tools)

SpecBind == InitBind /\ [][NextBind]_vars

\* ========================================================================
\* OciEmbeddings.embedDocuments and embedQuery, one call, await by await.
\* The inference service is the environment: it answers a request with a
\* response of any shape, or rejects.
\* ========================================================================
MaxDocuments == 183   \* longest list passed to embedDocuments

\* The vector the service has for a text, and a well-formed answer to a request.
VectorOf(t) == <<t>>
EmbedTextResponse(inputs) ==
  [ok |-> TRUE,
   embedTextResult |->
     Some([embeddings |-> Some([array |-> TRUE,
                                value |-> [i \in 1..Len(inputs) |-> VectorOf(inputs[i])]])])]

\* The answers that carry no list of embeddings: no embedTextResult, no
\* embeddings in it, or embeddings that is an object and not an array.
Malformed ==
  {[ok |-> TRUE, embedTextResult |-> None],
   [ok |-> TRUE, embedTextResult |-> Some([embeddings |-> None])],
   [ok |-> TRUE, embedTextResult |-> Some([embeddings |-> Some([array |-> FALSE, value |-> <<>>])])]}

\* lines 51 and 80: isArray(embedResponse?.embedTextResult?.embeddings)
HasEmbeddingsList(response) ==
  /\ IsSome(response.embedTextResult)
  /\ IsSome(Get(response.embedTextResult).embeddings)
  /\ Get(Get(response.embedTextResult).embeddings).array

\* lines 33-49 and 57-78: embedDocuments(documents) up to its first await
EmbedDocumentsCall(documents) ==
  /\ embedPc = "idle"
  /\ embedOp' = "embedDocuments" /\ embedArg' = documents /\ embedPc' = "embedText"
  /\ LET docs == SelectSeq(documents, Truthy)
     IN IF Len(docs) <= BATCH_SIZE
        THEN embedSent' = <<docs>> /\ embedQueue' = <<>>
        ELSE embedSent' = <<Batches(docs)[1]>> /\ embedQueue' = Tail(Batches(docs))
  /\ UNCHANGED <<batchResults, embedResponse, embedReturn, storeVars, speech, chat, keys, wrapper, race>>

\* lines 90-103: embedQuery(document) up to its await
EmbedQueryCall(document) ==
  /\ embedPc = "idle"
  /\ embedOp' = "embedQuery" /\ embedArg' = document /\ embedPc' = "embedText"
  /\ embedSent' = <<<<document>>>>
  /\ UNCHANGED <<embedQueue, batchResults, embedResponse, embedReturn, storeVars, speech, chat, keys, wrapper, race>>

\* line 105: embedResponse.embedTextResult.embeddings[0]
EmbedQueryReturn(response) ==
  IF ~ IsSome(response.embedTextResult) \/ ~ IsSome(Get(response.embedTextResult).embeddings)
  THEN [thrown |-> "TypeError"]
  ELSE [value |-> At(Get(Get(response.embedTextResult).embeddings).value, 1)]

\* lines 50-56, 79-87 and 104-105: client.embedText answers or rejects
EmbedTextResolves(response) ==
  /\ embedPc = "embedText"
  /\ embedResponse' = Some(response)
  /\ IF ~ response.ok
     THEN /\ embedPc' = "done" /\ embedReturn' = Some([thrown |-> response.error])
          /\ UNCHANGED <<embedQueue, batchResults, embedSent>>
     ELSE IF embedOp = "embedQuery"
     THEN /\ embedPc' = "done" /\ embedReturn' = Some(EmbedQueryReturn(response))
          /\ UNCHANGED <<embedQueue, batchResults, embedSent>>
     ELSE IF ~ HasEmbeddingsList(response)
     THEN /\ embedPc' = "done"
          /\ embedReturn' =
               Some([thrown |-> "Error in single batch embedding: worng respose format"])
          /\ UNCHANGED <<embedQueue, batchResults, embedSent>>
     ELSE LET embeddings == Get(Get(response.embedTextResult).embeddings).value
          IN IF Len(SelectSeq(embedArg, Truthy)) <= BATCH_SIZE
             THEN /\ embedPc' = "done" /\ embedReturn' = Some([value |-> embeddings])
                  /\ UNCHANGED <<embedQueue, batchResults, embedSent>>
             ELSE /\ batchResults' = batchResults \o embeddings
                  /\ IF embedQueue = <<>>
                     THEN /\ embedPc' = "done" /\ embedReturn' = Some([value |-> batchResults'])
                          /\ UNCHANGED <<embedQueue, embedSent>>
                     ELSE /\ embedSent' = Append(embedSent, Head(embedQueue))
                          /\ embedQueue' = Tail(embedQueue)
                          /\ UNCHANGED <<embedPc, embedReturn>>
  /\ UNCHANGED <<embedOp, embedArg, storeVars, speech, chat, keys, wrapper, race>>

\* The lists of the runs: n texts "1" .. "n", with empty strings at the places
\* of a pattern.
NumberedTexts(n, empties) == [i \in 1..n |-> IF i \in empties THEN "" ELSE ToString(i)]
Patterns(n) == {{}, {1, n}, {i \in 1..n : i % 2 = 0}}

InitEmbed == StoreIdle /\ SpeechIdle /\ ChatIdle /\ OthersIdle

NextEmbed ==
  \/ \E n \in (IF embedPc = "idle" THEN 0..MaxDocuments ELSE {}) : \E empties \in Patterns(n) :
       EmbedDocumentsCall(NumberedTexts(n, empties))
  \/ \E document \in {"", "q"} : EmbedQueryCall(document)
  \/ \E response \in (IF embedPc = "embedText"
                      THEN {EmbedTextResponse(embedSent[Len(embedSent)]),
                            [ok |-> FALSE, error |-> "timeout"]} \cup Malformed
                      ELSE {}) :
       EmbedTextResolves(response)

SpecEmbed == InitEmbed /\ [][NextEmbed]_vars

\* ========================================================================
\* privateKeyParse (utils.ts).  A key is a sequence of characters; "\n" is
\* the newline character and <<"\\", "n">> the escaped newline sequence.
\* ========================================================================
MaxBody == 129      \* longest key body, in characters without separators
MaxPasses == 2      \* applications of privateKeyParse in a run

Whitespace == {" ", "\n", "\r", "\t"}
UpperCase == {"A", "B", "C", "D", "E", "F", "G", "H", "I", "J", "K", "L", "M", "N", "O", "P",
              "Q", "R", "S", "T", "U", "V", "W", "X", "Y", "Z"}
Dashes == <<"-", "-", "-", "-", "-">>
Begin == Dashes \o <<"B", "E", "G", "I", "N", " ">>
End == Dashes \o <<"E", "N", "D", " ">>

\* s.trim()
Trim(s) ==
  LET solid == {i \in 1..Len(s) : s[i] \notin Whitespace}
  IN IF solid = {} THEN <<>>
     ELSE SubSeq(s, CHOOSE i \in solid : \A j \in solid : i <= j,
                 CHOOSE i \in solid : \A j \in solid : j <= i)

\* s.replace(/\\n/g, '\n'): two matches cannot overlap
Unescape(s) ==
  LET escaped == {i \in 1..(Len(s) - 1) : s[i] = "\\" /\ s[i + 1] = "n"}
      kept == SelectSeq([i \in 1..Len(s) |-> i], LAMBDA i : (i - 1) \notin escaped)
  IN [k \in 1..Len(kept) |-> IF kept[k] \in escaped THEN "\n" ELSE s[kept[k]]]

\* s.replace(/[\s\r\n]/g, '')
StripWhitespace(s) == SelectSeq(s, LAMBDA c : c \notin Whitespace)

\* s starts with t at position i
HasAt(s, i, t) == i + Len(t) - 1 <= Len(s) /\ SubSeq(s, i, i + Len(t) - 1) = t

\* line 33: s.match(/-----BEGIN ([A-Z\s]+)-----([\s\S]*?)-----END \1-----/)
\* tried at position i.  The type is the whole run of letters and whitespace
\* after BEGIN, which five dashes must end; the body runs to the first END of
\* that type.  None without a match at i, else its [type, body].
EnvelopeAt(s, i) ==
  IF ~ HasAt(s, i, Begin) THEN None
  ELSE LET from == i + Len(Begin)
           typeEnd == CHOOSE j \in (from - 1)..Len(s) :
                        /\ \A k \in from..j : s[k] \in UpperCase \cup Whitespace
                        /\ (j = Len(s) \/ s[j + 1] \notin UpperCase \cup Whitespace)
           type == SubSeq(s, from, typeEnd)
           closing == End \o type \o Dashes
           closes == {j \in (typeEnd + 1 + Len(Dashes))..Len(s) : HasAt(s, j, closing)}
       IN IF type = <<>> \/ ~ HasAt(s, typeEnd + 1, Dashes) \/ closes = {} THEN None
          ELSE Some([type |-> type,
                     body |-> SubSeq(s, typeEnd + 1 + Len(Dashes),
                                     (CHOOSE j \in closes : \A k \in closes : j <= k) - 1)])

\* The leftmost match of line 33 in s, None if there is none.
MatchEnvelope(s) ==
  LET starts == {i \in 1..Len(s) : IsSome(EnvelopeAt(s, i))}
  IN IF starts = {} THEN None ELSE EnvelopeAt(s, CHOOSE i \in starts : \A j \in starts : i <= j)

\* lines 49-52: body.match(/.{1,64}/g)?.join('\n') is undefined for an empty
\* body, which the template writes as the word undefined
formatBody(body, type) ==
  LET chunked == IF body = <<>> THEN <<"u", "n", "d", "e", "f", "i", "n", "e", "d">>
                 ELSE [k \in 1..(Len(body) + (Len(body) - 1) \div 64) |->
                         IF k % 65 = 0 THEN "\n" ELSE body[k - k \div 65]]
  IN Begin \o type \o Dashes \o <<"\n">> \o chunked \o <<"\n">> \o End \o type \o Dashes

\* lines 28-46
privateKeyParse(privateKey) ==
  IF privateKey = <<>> THEN <<>>
  ELSE LET saneKey == Unescape(Trim(privateKey))
           match == MatchEnvelope(saneKey)
       IN IF ~ IsSome(match)
          THEN formatBody(StripWhitespace(saneKey),
                          <<"P", "R", "I", "V", "A", "T", "E", " ", "K", "E", "Y">>)
          ELSE formatBody(StripWhitespace(Get(match).body), Get(match).type)

\* The keys of the runs: n characters of key material with a separator after
\* every seventh, bare or between a BEGIN and an END line of some type, after
\* some leading and before some trailing whitespace.
Material(n, sep) ==
  LET alphabet == <<"M", "I", "n", "b", "3", "/", "+", "n", "E", "=">>
      Piece(k) == <<alphabet[(k % Len(alphabet)) + 1]>> \o (IF k % 7 = 0 THEN sep ELSE <<>>)
  IN ConcatAll([k \in 1..n |-> Piece(k)])
Separators == {<<>>, <<"\n">>, <<"\\", "n">>, <<" ", "\r", "\n">>, <<"\\", "\n">>}
KeyTypes == {<<"P", "R", "I", "V", "A", "T", "E", " ", "K", "E", "Y">>,
             <<"R", "S", "A", " ", "P", "R", "I", "V", "A", "T", "E", " ", "K", "E", "Y">>}
Keys ==
  {<<>>}
  \cup {pad \o Material(n, sep) \o pad :
          pad \in {<<>>, <<" ", "\n">>}, n \in {0, 1, 64, 65, MaxBody}, sep \in Separators}
  \cup {pad \o Begin \o type \o Dashes \o sep \o Material(n, sep) \o End \o close \o Dashes \o pad :
          pad \in {<<>>, <<" ", "\n">>}, type \in KeyTypes, close \in KeyTypes,
          n \in {0, 1, 64, 65, MaxBody}, sep \in Separators}

\* ------------------------------------------------------------------ actions
\* privateKeyParse applied to a key, and again to what it returned
ParseKey(key) ==
  /\ keyPasses < MaxPasses
  /\ keyInput' = key /\ keyOutput' = Some(privateKeyParse(key)) /\ keyPasses' = keyPasses + 1
  /\ UNCHANGED <<storeVars, speech, chat, embed, wrapper, race>>

InitKey ==
  /\ StoreIdle /\ SpeechIdle /\ ChatIdle /\ EmbedIdle /\ WrapIdle /\ RaceIdle
  /\ keyInput = <<>> /\ keyOutput = None /\ keyPasses = 0

NextKey ==
  \/ \E key \in (IF keyPasses = 0 THEN Keys ELSE {}) : ParseKey(key)
  \/ \E key \in (IF keyPasses > 0 THEN {Get(keyOutput)} ELSE {}) : ParseKey(key)

SpecKey == InitKey /\ [][NextKey]_vars

\* ========================================================================
\* logWrapper (logWrapper.ts): method calls on the proxy of a tool, a vector
\* store or an embeddings instance.  The host records what addInputData and
\* addOutputData are given; the wrapped instance is the environment.
\* ========================================================================
MaxCalls == 2       \* method calls on the proxy in a run

\* lines 119-225: the connection type of the methods the get trap replaces,
\* None for the properties it hands out as they are (line 227)
ConnectionTypeOf(kind, prop) ==
  IF kind = "tool" /\ prop = "_call" THEN Some("ai_tool")
  ELSE IF kind = "vectorStore" /\ prop = "similaritySearch" THEN Some("ai_vectorStore")
  ELSE IF kind = "embeddings" /\ prop \in {"embedDocuments", "embedQuery"}
  THEN Some("ai_embedding")
  ELSE None

\* A variant that returns whatever the tool resolved with.
ToolReturnAsIs(response) == response

\* lines 146-147: what the replacement of _call returns
ToolReturn(response) ==
  IF response.type = "string" THEN response
  ELSE [type |-> "string", value |-> JsonStringify(response.value)]

\* lines 115-141, 155-172, 186-198, 207-219, 227 and 34-45: the method prop of
\* the proxy is called with some arguments, up to the await of the method of
\* the wrapped instance
WrapperCall(prop, arguments) ==
  /\ Len(wrapCalls) < MaxCalls
  /\ targetCalls' = Append(targetCalls, [method |-> prop, arguments |-> arguments])
  /\ IF IsSome(ConnectionTypeOf(wrapKind, prop))
     THEN /\ inputData' = Append(inputData, [connectionType |-> Get(ConnectionTypeOf(wrapKind, prop)),
                                             json |-> arguments])
          /\ wrapCalls' = Append(wrapCalls, [prop |-> prop, arguments |-> arguments,
                                             index |-> Some(Len(inputData)), state |-> "pending"])
     ELSE /\ wrapCalls' = Append(wrapCalls, [prop |-> prop, arguments |-> arguments,
                                             index |-> None, state |-> "pending"])
          /\ UNCHANGED inputData
  /\ UNCHANGED <<wrapKind, outputData, storeVars, speech, chat, embed, keys, race>>

\* lines 45-73, 143-147, 174-177, 200-202, 220-222: the method of the wrapped
\* instance called by call c resolves with a response, or rejects with e
MethodSettles(c, ok, response) ==
  /\ wrapCalls[c].state = "pending"
  /\ IF ~ IsSome(wrapCalls[c].index)
     THEN /\ wrapCalls' = [wrapCalls EXCEPT ![c] =
                             [prop |-> @.prop, arguments |-> @.arguments, index |-> @.index,
                              state |-> IF ok THEN "returned" ELSE "thrown",
                              settled |-> response, got |-> response]]
          /\ UNCHANGED outputData
     ELSE /\ outputData' =
               Append(outputData,
                      [connectionType |-> Get(ConnectionTypeOf(wrapKind, wrapCalls[c].prop)),
                       index |-> Get(wrapCalls[c].index),
                       data |-> IF ok THEN [response |-> response]
                                ELSE [error |-> [NodeOperationError |-> response]]])
          /\ wrapCalls' = [wrapCalls EXCEPT ![c] =
                             [prop |-> @.prop, arguments |-> @.arguments, index |-> @.index,
                              state |-> IF ok THEN "returned" ELSE "thrown",
                              settled |-> response,
                              got |-> IF ~ ok THEN [NodeOperationError |-> response]
                                      ELSE IF wrapKind = "tool" THEN ToolReturn(response)
                                      ELSE response]]
  /\ UNCHANGED <<wrapKind, inputData, targetCalls, storeVars, speech, chat, embed, keys, race>>

\* The methods called on each kind of instance, and what they resolve with.
Methods(kind) ==
  CASE kind = "tool" -> {"_call", "invoke"}
    [] kind = "vectorStore" -> {"similaritySearch", "addDocuments"}
    [] kind = "embeddings" -> {"embedDocuments", "embedQuery"}
Responses(kind) ==
  CASE kind = "tool" -> {[type |-> "string", value |-> "sunny"],
                         [type |-> "object", value |-> << <<"temp", "20">> >>]}
    [] kind = "vectorStore" -> {[type |-> "documents", value |-> <<"doc">>]}
    [] kind = "embeddings" -> {[type |-> "vectors", value |-> <<1, 0>>]}

InitWrap ==
  /\ StoreIdle /\ SpeechIdle /\ ChatIdle /\ EmbedIdle /\ KeyIdle /\ RaceIdle
  /\ wrapKind \in {"tool", "vectorStore", "embeddings"}
  /\ wrapCalls = <<>> /\ inputData = <<>> /\ outputData = <<>> /\ targetCalls = <<>>

NextWrap ==
  \/ \E prop \in Methods(wrapKind) : \E arguments \in {<<"q">>, <<"r">>} :
       WrapperCall(prop, arguments)
  \/ \E c \in 1..Len(wrapCalls) : \E response \in Responses(wrapKind) :
       MethodSettles(c, TRUE, response)
  \/ \E c \in 1..Len(wrapCalls) : \E e \in {[type |-> "error", value |-> "boom"]} :
       MethodSettles(c, FALSE, e)

SpecWrap == InitWrap /\ [][NextWrap]_vars

\* ========================================================================
\* OracleDbVectorStore.init() called by several initializers for one table
\* name, one await at a time.  Each initializer has its own embeddings model;
\* the database and the console are shared.
\* ========================================================================
MaxInits == 2       \* concurrent init() calls

\* lines 482-484: catch (error) { console.log(error) }, and init returns
Caught(p, e) ==
  /\ logged' = Append(logged, e)
  /\ initPc' = [initPc EXCEPT ![p] = "returned"]

\* line 474: this.connection = await _get_connection(this.client)
GetConnectionSettles(p) ==
  /\ initPc[p] = "_get_connection"
  /\ IF GetConnection(client).ok
     THEN initPc' = [initPc EXCEPT ![p] = "_table_exists"] /\ UNCHANGED logged
     ELSE Caught(p, GetConnection(client).error)
  /\ UNCHANGED <<initDim, probedDim, creations, tbl>>

\* lines 478-479: const tableExists = await _table_exists(...); if (!tableExists)
TableExistsSettles(p, dbOk) ==
  /\ initPc[p] = "_table_exists"
  /\ IF ~ TableExists(tbl, dbOk).ok THEN Caught(p, TableExists(tbl, dbOk).error)
     ELSE /\ initPc' = [initPc EXCEPT ![p] =
                          IF TableExists(tbl, dbOk).value THEN "returned"
                          ELSE "get_embedding_dimension"]
          /\ UNCHANGED logged
  /\ UNCHANGED <<initDim, probedDim, creations, tbl>>

\* lines 480 and 487-495: const embeddingDim = await this.get_embedding_dimension()
EmbeddingDimensionSettles(p, up) ==
  /\ initPc[p] = "get_embedding_dimension"
  /\ \E probe \in {EmbedQuery(IF IsSome(query) /\ Truthy(Get(query)) THEN Get(query) ELSE "test",
                              initDim[p], up)} :
       IF probe.ok
       THEN /\ probedDim' = [probedDim EXCEPT ![p] = Some(Len(probe.value))]
            /\ initPc' = [initPc EXCEPT ![p] = "_create_table"]
            /\ UNCHANGED logged
       ELSE Caught(p, "embedText failed") /\ UNCHANGED probedDim
  /\ UNCHANGED <<initDim, creations, tbl>>

\* line 481: await _create_table(this.connection, this.tableName, embeddingDim)
CreateTableSettles(p) ==
  /\ initPc[p] = "_create_table"
  /\ \E created \in {CreateTable(tbl, Get(probedDim[p]))} :
       IF created.ok
       THEN /\ tbl' = created.table
            /\ creations' = Append(creations, created.table.width)
            /\ initPc' = [initPc EXCEPT ![p] = "returned"]
            /\ UNCHANGED logged
       ELSE Caught(p, created.error) /\ UNCHANGED <<tbl, creations>>
  /\ UNCHANGED <<initDim, probedDim>>

InitRace ==
  /\ SpeechIdle /\ ChatIdle /\ EmbedIdle /\ KeyIdle /\ WrapIdle
  /\ client \in Clients /\ query \in {None, Some("q")} /\ tbl = NoTable
  /\ distanceStrategy = "" /\ filter = None /\ connection = None /\ modelDim = 0
  /\ uuids = 0 /\ digest = <<>> /\ inserts = 0 /\ searches = 0 /\ op = "none" /\ args = <<>>
  /\ outcome = "ok" /\ error = "" /\ logged = <<>> /\ batchErrors = <<>> /\ calls = <<>>
  /\ result = <<>>
  /\ initPc = [p \in 1..MaxInits |-> "_get_connection"]
  /\ initDim \in [1..MaxInits -> {2, 3}]
  /\ probedDim = [p \in 1..MaxInits |-> None]
  /\ creations = <<>>

StoreRest ==
  <<client, query, distanceStrategy, filter, connection, modelDim, uuids, digest, inserts,
    searches, op, args, outcome, error, batchErrors, calls, result>>

NextRace ==
  /\ \E p \in 1..MaxInits :
       \/ GetConnectionSettles(p)
       \/ \E dbOk \in BOOLEAN : TableExistsSettles(p, dbOk)
       \/ \E up \in BOOLEAN : EmbeddingDimensionSettles(p, up)
       \/ CreateTableSettles(p)
  /\ UNCHANGED <<StoreRest, speech, chat, embed, keys, wrapper>>

SpecRace == InitRace /\ [][NextRace]_vars

\* ========================================================================
\* after new OracleDbVectorStore(fields)
Constructed(d, c, q, s, f, dim, t) ==
  /\ SpeechIdle /\ ChatIdle /\ OthersIdle
  /\ digest = d
  /\ client = c
  /\ query = q
  /\ distanceStrategy = StrategyOrDefault(s)
  /\ filter = f
  /\ connection = None
  /\ modelDim = dim
  /\ tbl = t
  /\ uuids = 0
  /\ inserts = 0
  /\ searches = 0
  /\ op = "new"
  /\ args = <<>>
  /\ outcome = "ok"
  /\ error = ""
  /\ logged = <<>>
  /\ batchErrors = <<>>
  /\ calls = <<>>
  /\ result = <<>>

\* ----------------------------------------------------------- specifications
\* Any client, any provider state, small inserts.
Init ==
  \E d \in Digests, c \in Clients, q \in {None, Some("q")}, dim \in {2, 3},
     t \in {NoTable, EmptyTable(2)} :
    Constructed(d, c, q, None, None, dim, t)

Next ==
  \/ \E up \in BOOLEAN, dbOk \in BOOLEAN : InitStore(up, dbOk)
  \/ \E texts \in TextLists, metadatas \in Repeat(MetadataArgs, args.metadatas),
        ids \in Repeat(IdArgs, args.ids), up \in BOOLEAN :
       AddTexts(texts, metadatas, ids, up)
  \/ \E documents \in RepeatDocuments(DocumentLists), clearTable \in BOOLEAN, up \in BOOLEAN :
       AddDocuments(documents, clearTable, up)

Spec == Init /\ [][Next]_vars

\* A working client and provider; inserts with every arrangement of ids.
InitIds ==
  \E d \in Digests, c \in {"connection", "pool"} : Constructed(d, c, None, None, None, 2, NoTable)

NextIds ==
  \/ InitStore(TRUE, TRUE)
  \/ \E texts \in ScenarioTexts, metadatas \in Repeat(ScenarioMetadatas, args.metadatas),
        ids \in Repeat(ScenarioIds, args.ids) :
       AddTexts(texts, metadatas, ids, TRUE)

SpecIds == InitIds /\ [][NextIds]_vars

\* A working client and provider; every strategy and filter; inserts, then a search.
InitSearch ==
  \E d \in Digests, s \in Strategies, f \in Filters :
    Constructed(d, "connection", None, s, f, 2, NoTable)

NextSearch ==
  \/ InitStore(TRUE, TRUE)
  \/ \E texts \in SearchTexts, metadatas \in Repeat(SearchMetadatas, args.metadatas) :
       AddTexts(texts, metadatas, None, TRUE)
  \/ \E q \in QueryVectors, k \in 1..MaxTexts, f \in Filters :
       SimilaritySearchVectorWithScore(q, k, f)
  \/ \E text \in {"x", ""}, k \in {None, Some(1)}, f \in Filters, up \in BOOLEAN :
       SimilaritySearch(text, k, f, up)

SpecSearch == InitSearch /\ [][NextSearch]_vars

\* ------------------------------------------------------------------ claims
ExecuteManyAt == {i \in 1..Len(calls) : calls[i].fn = "executeMany"}
BoundRows == calls[CHOOSE i \in ExecuteManyAt : TRUE].rows
BoundIds == [i \in 1..Len(BoundRows) |-> BoundRows[i].id]
CallsOf(cs, fn) == {i \in 1..Len(cs) : cs[i].fn = fn}
Canary == IF IsSome(query) /\ Truthy(Get(query)) THEN Get(query) ELSE "test"

\* C1: after init() returns for a table that did not exist before the call, the
\* table exists and its vector column is as wide as the embedding returned by the
\* single canary embedQuery call (the configured sample query, or "test").
C1_InitCreatesTable ==
  (op = "init" /\ ~args.existed) =>
    /\ tbl.exists
    /\ Cardinality(CallsOf(calls, "embedQuery")) = 1
    /\ \A i \in CallsOf(calls, "embedQuery") : calls[i].texts = <<Canary>>
    /\ tbl.width = Len(EmbedText(<<Canary>>, modelDim)[1])

IdsGiven == IsSome(args.ids) /\ Get(args.ids) # <<>>
MetadataIds ==
  IsSome(args.metadatas)
  /\ \A i \in 1..Len(Get(args.metadatas)) : HasKey(Get(args.metadatas)[i], "id")
ExpectedSources ==
  IF IdsGiven THEN [i \in 1..Len(Get(args.ids)) |-> Utf8(Get(args.ids)[i])]
  ELSE IF MetadataIds
  THEN [i \in 1..Len(Get(args.metadatas)) |-> Utf8(Member(Get(args.metadatas)[i], "id"))]
  ELSE [i \in 1..Len(args.texts) |-> RandomUUID(args.drawn + i)]

\* C2: the record ids bound by addTexts are derived from the explicit ids when a
\* non-empty ids list is given; otherwise from metadata.id when every metadata
\* entry has an id; otherwise from one identifier per text that randomUUID had
\* not produced before.
C2_IdPriority ==
  (op = "addTexts" /\ ExecuteManyAt # {}) =>
    BoundIds = [i \in 1..Len(ExpectedSources) |-> BufferFromHex(ProcessedId(ExpectedSources[i]))]

C2_ExplicitIdsWin ==
  /\ op = "addTexts"
  /\ args.ids = Some(<<"a", "b">>)
  /\ args.metadatas = Some(<<MetaId("c"), MetaId("c")>>)
  /\ ExecuteManyAt # {}
  /\ BoundIds = <<BufferFromHex(ProcessedId(IdA)), BufferFromHex(ProcessedId(IdB))>>
  /\ BoundIds[1] # BufferFromHex(ProcessedId(IdC))

\* The first 8 bytes of SHA-256 of "a", "b" and "c".
DerivedId(s) ==
  CASE s = "a" -> <<202, 151, 129, 18, 202, 27, 189, 202>>
    [] s = "b" -> <<62, 35, 232, 22, 0, 57, 89, 74>>
    [] s = "c" -> <<46, 125, 44, 3, 169, 80, 122, 226>>
SourceId(i) ==
  IF IdsGiven THEN Get(args.ids)[i] ELSE Member(Get(args.metadatas)[i], "id")

\* C3: on the explicit-id and metadata-id paths the id bound for a record depends
\* on its source id string only (whatever the texts, the client, the inserts made
\* before), and "a", "b", "c" give three different ids.
C3_DerivedIds ==
  /\ Cardinality({DerivedId(s) : s \in {"a", "b", "c"}}) = 3
  /\ (op \in InsertOps /\ ExecuteManyAt # {} /\ (IdsGiven \/ MetadataIds)) =>
       \A i \in 1..Len(BoundRows) : BoundRows[i].id = DerivedId(SourceId(i))

C3_SameInsertAgain ==
  /\ op = "addTexts"
  /\ inserts = 2
  /\ args.ids = Some(<<"a", "b", "c">>)
  /\ args.texts = <<"y", "y", "y">>
  /\ BoundIds = <<DerivedId("a"), DerivedId("b"), DerivedId("c")>>
  /\ [i \in 1..Len(tbl.rows) |-> tbl.rows[i].id] = BoundIds
  /\ tbl.rows[1].text = Some("x")
  /\ [i \in 1..Len(batchErrors) |-> batchErrors[i].error] = <<"ORA-00001", "ORA-00001", "ORA-00001">>

\* C4: addTexts makes one embedDocuments call for all texts and then one
\* executeMany call that binds one row per text, the i-th row with the i-th text.
C4_OneRowPerText ==
  (op = "addTexts" /\ outcome = "ok") =>
    /\ Cardinality(CallsOf(calls, "embedDocuments")) = 1
    /\ calls[1] = Call("embedDocuments", args.texts, <<>>, 0)
    /\ Cardinality(ExecuteManyAt) = 1
    /\ Len(BoundRows) = Len(args.texts)
    /\ \A i \in 1..Len(BoundRows) : BoundRows[i].text = Some(args.texts[i])

\* C5: when rows of the batch fail, the other rows are inserted and the failure
\* reaches the caller of the insert, as an error or in what it returns.
C5_PartialFailureReported ==
  (op \in InsertOps /\ batchErrors # <<>>) =>
    /\ \A i \in 1..Len(BoundRows) :
         (\A e \in 1..Len(batchErrors) : batchErrors[e].offset # i - 1) =>
           \E j \in 1..Len(tbl.rows) : tbl.rows[j] = BoundRows[i]
    /\ (outcome = "throw" \/ result # <<>>)

Truncates(cs) == {i \in 1..Len(cs) : cs[i].fn = "execute" /\ cs[i].texts = <<"TRUNCATE TABLE">>}
Truncated(t) == IF t.exists THEN [t EXCEPT !.rows = <<>>] ELSE t

\* C6: addDocuments with clearTable issues one TRUNCATE, before any embedding call
\* or insert (and raises without inserting when it cannot truncate); without
\* clearTable it issues none; after that its calls and their effect are those of
\* addTexts with the documents' pageContent and metadata and no ids.
C6_TruncateFirst ==
  [][op' = "addDocuments" =>
      LET clear == args'.clearTable
          k == CHOOSE i \in Truncates(calls') : TRUE
          asAddTexts == AddTextsRun(IF clear THEN Truncated(tbl) ELSE tbl, uuids,
                                    args'.texts, args'.metadatas, None, args'.up)
          rest == IF clear THEN SubSeq(calls', k + 1, Len(calls')) ELSE calls'
      IN IF clear /\ (client = "invalid" \/ ~tbl.exists)
         THEN /\ outcome' = "throw"
              /\ tbl' = tbl
              /\ CallsOf(calls', "embedDocuments") = {}
              /\ CallsOf(calls', "executeMany") = {}
         ELSE /\ Cardinality(Truncates(calls')) = (IF clear THEN 1 ELSE 0)
              /\ clear => \A i \in 1..(k - 1) : calls'[i].fn = "getConnection"
              /\ rest = asAddTexts.calls
              /\ tbl' = asAddTexts.table
              /\ outcome' = asAddTexts.outcome
              /\ error' = asAddTexts.error
              /\ batchErrors' = asAddTexts.batchErrors]_vars

C6_ClearedBeforeInsert ==
  /\ op = "addDocuments"
  /\ inserts = 2
  /\ args.clearTable
  /\ args.metadatas = Some(<<MetaId("a")>>)
  /\ outcome = "ok"
  /\ batchErrors = <<>>
  /\ Len(tbl.rows) = 1
  /\ Truncates(calls) # {}
  /\ \A i \in Truncates(calls) : \A j \in CallsOf(calls, "embedDocuments") : i < j

Token == GetDistanceFunction(distanceStrategy).value
Scored(rows) == [i \in 1..Len(rows) |-> [doc |-> Document(rows[i]), score |-> rows[i].DISTANCE]]
Documents(rows) == [i \in 1..Len(rows) |-> Document(rows[i])]

\* C7: what a search returns is what the query returns for its vector and k on the
\* table, whichever filter is passed to the call and whichever filter the store
\* was constructed with: the same rows in the same order.
C7_FilterIgnored ==
  /\ (op = "searchVector" /\ outcome = "ok") =>
       \A f \in Filters, sf \in Filters :
         result = Scored(ResultRows(SelectNearest(tbl, args.q, Token, Some(args.k)).rows, f, sf))
  /\ (op = "search" /\ outcome = "ok" /\ Truthy(args.text)) =>
       \A f \in Filters, sf \in Filters :
         result = Documents(ResultRows(
                    SelectNearest(tbl, EmbedText(<<args.text>>, modelDim)[1], Token, args.k).rows,
                    f, sf))

C7_FilterWouldMatter ==
  /\ op = "searchVector"
  /\ outcome = "ok"
  /\ args.filter = Some(MetaId("a"))
  /\ filter = Some(MetaId("a"))
  /\ Len(result) = 2
  /\ result[1].doc.metadata = <<>>
  /\ result[2].doc.metadata = MetaId("a")

\* C8: on an initialized empty table, addTexts([x]) followed by
\* similaritySearchVectorWithScore(embed(x), 1) returns one result, the record
\* whose pageContent is x, at distance 0 under COSINE and EUCLIDEAN_DISTANCE.
C8_RoundTrip ==
  [][(/\ op = "addTexts"
      /\ inserts = 1
      /\ Len(args.texts) = 1
      /\ args.metadatas = None
      /\ outcome = "ok"
      /\ distanceStrategy \in {"COSINE", "EUCLIDEAN_DISTANCE"}
      /\ op' = "searchVector"
      /\ args'.q = EmbedText(args.texts, modelDim)[1]
      /\ args'.k = 1)
     => (/\ outcome' = "ok"
         /\ Len(result') = 1
         /\ result'[1].doc.pageContent = Some(args.texts[1])
         /\ DistanceIsZero(result'[1].score))]_vars

\* C9: with a client that is neither a connection nor a pool, init() raises to its
\* caller before any embedding call or database statement.
C9_InvalidClientRaises ==
  (op = "init" /\ client = "invalid") =>
    (outcome = "throw" /\ error = "Invalid client type" /\ calls = <<>>)

\* C10: a search resolves EUCLIDEAN_DISTANCE, DOT_PRODUCT and COSINE to the tokens
\* EUCLIDEAN, DOT and COSINE, and with any other strategy raises the
\* unsupported-strategy error naming it, before any statement is executed.
C10_Resolver ==
  op = "searchVector" =>
    IF distanceStrategy \in {"EUCLIDEAN_DISTANCE", "DOT_PRODUCT", "COSINE"}
    THEN /\ Token = (CASE distanceStrategy = "EUCLIDEAN_DISTANCE" -> "EUCLIDEAN"
                       [] distanceStrategy = "DOT_PRODUCT" -> "DOT"
                       [] distanceStrategy = "COSINE" -> "COSINE")
         /\ \A i \in CallsOf(calls, "execute") : calls[i].texts = <<"SELECT", Token>>
    ELSE /\ outcome = "throw"
         /\ error = "Unsupported distance strategy"
         /\ GetDistanceFunction(distanceStrategy).names = distanceStrategy
         /\ calls = <<>>

\* ---------------------------------------------------- claims: transcription
Message(text) == IsSome(thrown) /\ Get(thrown).message = <<text>>
Waiting == pc \in {"sleep", "getTranscriptionJob"}
TimedOut ==
  /\ pc = "done"
  /\ Message("Timed out waiting for transcription job to complete")
  /\ returnItems = <<>>
GetRejected == pc = "done" /\ Message("Failed to get transcription job status")
Polls == CallsOf(requests, "getTranscriptionJob")
Sleeps == CallsOf(requests, "sleep")

\* C11: while the item waits and the service keeps answering with a state
\* that is not SUCCEEDED, FAILED or CANCELED, the item ends with the timeout
\* error, and only after the deadline; it returns no item without a terminal
\* state and does not poll forever.
C11_TimesOut ==
  /\ [](pc = "done" /\ params.outputType = "json" /\ lifecycleState \notin Terminal
          => returnItems = <<>>)
  /\ [](TimedOut => now > deadline /\ lifecycleState \notin Terminal)
  /\ (Waiting ~> (lifecycleState \in Terminal \/ GetRejected \/ TimedOut))

\* The default wait of 30 minutes ran out on a job still in progress.
C11_TimedOutInProgress ==
  /\ TimedOut
  /\ lifecycleState = "IN_PROGRESS"
  /\ params.options.maxWaitMinutes = None
  /\ Cardinality(Polls) > 1

C13_JobIdAtOnce ==
  params.outputType = "job_id" =>
    /\ Len(requests) = 1
    /\ requests[1].fn = "createTranscriptionJob"
    /\ pc = "done" /\ IsSome(job) /\ TruthyStr(Get(job).id) =>
         thrown = None /\ returnItems = <<[json |-> [jobId |-> Get(Get(job).id)]]>>

\* The id of a job that was just accepted was returned.
C13_ReturnedJobId ==
  /\ params.outputType = "job_id"
  /\ pc = "done"
  /\ returnItems # <<>>
  /\ Get(job).lifecycleState = "ACCEPTED"

\* The objects of the bucket under the output prefix, in listing order, the
\* JSON ones among them, and those of these that carry the marker of the job.
UnderPrefix == SelectSeq(bucket, LAMBDA n : StartsWith(n, BaseOf(params)))
JsonAt == {i \in 1..Len(UnderPrefix) : isJson(UnderPrefix[i])}
MarkedAt ==
  {i \in JsonAt : Includes(UnderPrefix[i], <<"j", "o", "b", "-">> \o SplitPop(jobId))}
Fetched == {requests[i].arg : i \in CallsOf(requests, "getObject")}

\* C14: once the three prefixes are listed, the object fetched is the first
\* JSON object that carries job-<shortId>, or, when none does, a JSON object
\* under the prefix; with no JSON object listed nothing is fetched and the
\* item fails.
C14_ArtifactChoice ==
  listed = 3 =>
    IF JsonAt = {}
    THEN /\ Fetched = {}
         /\ pc = "done"
         /\ Message("Could not locate JSON result object for this job in the specified bucket/prefix")
    ELSE IF MarkedAt # {}
    THEN Fetched = {UnderPrefix[CHOOSE i \in MarkedAt : \A j \in MarkedAt : i <= j]}
    ELSE \E i \in JsonAt : Fetched = {UnderPrefix[i]}

\* The object of the job was fetched although another JSON object is listed first.
C14_MarkedNotFirst ==
  /\ listed = 3
  /\ pc = "done"
  /\ MarkedAt # {}
  /\ \E i \in JsonAt : i \notin MarkedAt /\ \A j \in MarkedAt : i < j
  /\ returnItems # <<>>

\* What the job reported: its last answer to a poll, or its answer to the
\* creation when it was never polled.
JobReported == IF IsSome(finalJobDetails) THEN finalJobDetails ELSE job
Disagrees(report) ==
  \/ /\ TruthyStr(modelTypeIn(report))
     /\ ModelToUpperCase(Get(modelTypeIn(report))) # Requested(params).modelType
  \/ /\ TruthyStr(Requested(params).languageCode)
     /\ TruthyStr(languageCodeIn(report))
     /\ Get(languageCodeIn(report)) # Get(Requested(params).languageCode)
Decoded == pc = "done" /\ IsSome(getObjResp) /\ Get(getObjResp).json

\* C15: once the artifact is decoded, a strict item whose requested model or
\* language differs from what the job or the artifact reported fails with the
\* mismatch error and returns nothing; an item that is not strict returns.
C15_StrictMismatchFails ==
  Decoded =>
    /\ /\ Requested(params).strictOptions
       /\ Disagrees(JobReported) \/ Disagrees(Get(getObjResp).value)
       => /\ Message("Transcription job did not apply requested options")
          /\ returnItems = <<>>
    /\ ~ Requested(params).strictOptions => thrown = None /\ Len(returnItems) = 1

\* ------------------------------------------------------------ claims: chat
\* A Cohere request has been built from the conversation.
CohereBuilt == IsSome(chatRequest) /\ Get(chatRequest).apiFormat = "COHERE"
NoToolMessage == \A i \in 1..Len(messages) : messages[i].type # "tool"
LastIs(type) == messages # <<>> /\ messages[Len(messages)].type = type

\* C16: in the Cohere request of a conversation without tool-result message
\* whose last message is a user message, the standalone message is the text of
\* that message, and the user entries of chatHistory are the user messages
\* before it, in order: the last one is not among them.
C16_LastUserIsStandalone ==
  (CohereBuilt /\ NoToolMessage /\ LastIs("human"))
    => /\ Get(chatRequest).message = messages[Len(messages)].content
       /\ SelectSeq(Get(chatRequest).chatHistory, LAMBDA x : x.role = "USER")
            = LET before == SelectSeq(SubSeq(messages, 1, Len(messages) - 1),
                                      LAMBDA m : m.type = "human")
              IN [i \in 1..Len(before) |-> [role |-> "USER", message |-> before[i].content]]

\* An earlier user message stays in the history and the last one is absorbed.
C16_StandaloneAfterHistory ==
  /\ CohereBuilt /\ NoToolMessage /\ LastIs("human") /\ Len(messages) = 3
  /\ messages[1].type = "human" /\ messages[1].content # messages[3].content
  /\ Get(chatRequest).message = messages[3].content
  /\ Len(Get(chatRequest).chatHistory) = 2
\* The wire role of a message, and the history entry a message is listed as.
WireRole(type) ==
  CASE type = "human" -> "USER" [] type = "ai" -> "CHATBOT" [] type = "system" -> "SYSTEM"
    [] type = "tool" -> "TOOL"
Lists(entry, m) == entry.role = WireRole(m.type) /\ entry.message = m.content

\* C17: the chatHistory of a Cohere request has at most one tool-result entry,
\* and its other entries are the messages of the conversation, one entry per
\* message and in the order of the conversation, without the tool-result
\* messages and without at most one user message whose text is the standalone
\* message.
C17_HistoryKeepsOrder ==
  CohereBuilt =>
    LET history == SelectSeq(Get(chatRequest).chatHistory, LAMBDA x : x.role # "TOOL")
        absorbable == {i \in 1..Len(messages) :
                         /\ messages[i].type = "human"
                         /\ messages[i].content = Get(chatRequest).message}
    IN /\ Len(history) + 1 >= Len(Get(chatRequest).chatHistory)
       /\ \E absorbed \in {0} \cup absorbable :
            LET kept == SelectSeq([i \in 1..Len(messages) |-> [at |-> i, m |-> messages[i]]],
                                  LAMBDA x : x.m.type # "tool" /\ x.at # absorbed)
            IN /\ Len(history) = Len(kept)
               /\ \A k \in 1..Len(kept) : Lists(history[k], kept[k].m)
\* The tool results of the request, one per tool-result message, in order.
ToolMessagesAt == SelectSeq([i \in 1..Len(messages) |-> i], LAMBDA i : messages[i].type = "tool")

\* C18: in a Cohere request, the tool result of every tool-result message
\* whose tool_call_id is the id of a tool call of an earlier assistant message
\* carries the name and the arguments of that call.
C18_ToolResultLinked ==
  CohereBuilt =>
    \A k \in 1..Len(ToolMessagesAt) :
      \A i \in 1..(ToolMessagesAt[k] - 1) :
        messages[i].type = "ai" =>
          \A c \in 1..Len(messages[i].tool_calls) :
            messages[i].tool_calls[c].id = messages[ToolMessagesAt[k]].tool_call_id =>
              /\ Len(Get(Get(chatRequest).toolResults)) = Len(ToolMessagesAt)
              /\ Get(Get(chatRequest).toolResults)[k].call.name = messages[i].tool_calls[c].name
              /\ Get(Get(chatRequest).toolResults)[k].call.parameters
                   = messages[i].tool_calls[c].args
\* C19: a call for a Cohere model whose conversation has no tool-result
\* message and does not end with a user message ends by throwing, once it has
\* ended; no request with an empty standalone message is sent for it.
C19_UnexpectedLastSurfaced ==
  ( /\ StartsWith(chatModel, <<"c", "o", "h", "e", "r", "e">>) /\ chatPc # "idle"
    /\ NoToolMessage /\ messages # <<>> /\ ~ LastIs("human") )
    => /\ ~ IsSome(chatRequest)
       /\ chatPc = "done" /\ IsSome(generation) /\ "thrown" \in DOMAIN Get(generation)
\* The conversation is [system, user, assistant-with-tool-call, tool-result].
RoundTripConversation ==
  /\ Len(messages) = 4
  /\ <<messages[1].type, messages[2].type, messages[3].type, messages[4].type>>
       = <<"system", "human", "ai", "tool">>
  /\ messages[3].tool_calls # <<>>
  /\ messages[4].tool_call_id = messages[3].tool_calls[1].id

\* The messages a request carries on the wire, and the type a wire role reads as.
Wire(request) ==
  IF request.apiFormat = "GENERIC" THEN request.messages
  ELSE request.chatHistory
       \o (IF request.message = "" THEN <<>> ELSE <<[role |-> "USER", message |-> request.message]>>)
TypeOfRole(role) ==
  CASE role = "USER" -> "human" [] role \in {"ASSISTANT", "CHATBOT"} -> "ai"
    [] role = "SYSTEM" -> "system" [] role = "TOOL" -> "tool"

\* C20: the request built from [system, user, assistant-with-tool-call,
\* tool-result], in either format, carries four messages whose roles read back
\* as system, user, assistant and tool result, and the tool calls of its
\* assistant message decode to the arguments of the conversation's.
C20_RoundTrip ==
  (IsSome(chatRequest) /\ RoundTripConversation)
    => LET wire == Wire(Get(chatRequest))
       IN /\ Len(wire) = Len(messages)
          /\ \A i \in 1..4 : TypeOfRole(wire[i].role) = messages[i].type
          /\ LET decoded == IF Get(chatRequest).apiFormat = "GENERIC"
                            THEN GenericToolCalls(wire[3].toolCalls)
                            ELSE CohereToolCalls(wire[3].toolCalls)
             IN /\ Len(decoded) = Len(messages[3].tool_calls)
                /\ \A c \in 1..Len(decoded) : decoded[c].args = messages[3].tool_calls[c].args
\* ------------------------------------------------------- claims: chat client
\* C21: a call of bindTools leaves every instance there was as it was and
\* returns an instance that was not there, with the model, compartment,
\* authentication handle and generation parameters of the instance it was
\* called on, and with one tool per tool given, of the same name and
\* description: its parameters as a map of parameter definitions, one per
\* property of the schema, for a cohere model, and a function definition with
\* the schema otherwise.
C21_BindToolsReturnsNew ==
  [][bindCall' # bindCall =>
       LET call == Get(bindCall')
           this == instances[call.this]
           new == instances'[call.returned]
           bound == Get(new.tools)
       IN /\ \A i \in 1..Len(instances) : instances'[i] = instances[i]
          /\ call.returned \notin 1..Len(instances)
          /\ \A f \in {"model", "compartmentId", "auth", "temperature", "topP", "topK",
                       "maxTokens", "frequencyPenalty", "presencePenalty"} : new[f] = this[f]
          /\ new.client.authenticationDetailsProvider = this.auth.authProvider
          /\ Len(bound) = Len(call.tools)
          /\ \A i \in 1..Len(bound) :
               /\ bound[i].name = call.tools[i].name
               /\ bound[i].description = call.tools[i].description
               /\ IF SubSeq(this.model, 1, 6) = <<"c", "o", "h", "e", "r", "e">>
                  THEN /\ DOMAIN bound[i] = {"name", "description", "parameterDefinitions"}
                       /\ [k \in 1..Len(bound[i].parameterDefinitions) |->
                             bound[i].parameterDefinitions[k][1]]
                            = IF IsSome(call.tools[i].schema.properties)
                              THEN [k \in 1..Len(Get(call.tools[i].schema.properties)) |->
                                      Get(call.tools[i].schema.properties)[k][1]]
                              ELSE <<>>
                  ELSE /\ bound[i].type = "FUNCTION"
                       /\ bound[i].parameters = call.tools[i].schema
  ]_vars

\* bindTools on a cohere instance that already has tools returned an instance
\* with a tool of three parameter definitions.
C21_BoundCohereTwice ==
  /\ IsSome(bindCall) /\ Get(bindCall).this = 2 /\ Len(Get(bindCall).tools) = 1
  /\ StartsWith(instances[3].model, <<"c", "o", "h", "e", "r", "e">>)
  /\ IsSome(instances[2].tools) /\ Get(instances[2].tools) # Get(instances[3].tools)
  /\ Len(Get(instances[3].tools)[1].parameterDefinitions) = 3
\* The call of _generate has ended, by returning or by throwing.
Ended == chatPc = "done" /\ IsSome(generation)

\* C22 as stated: a call of _generate never has more than one request passed
\* to client.chat; once it has ended exactly one was passed; and when
\* client.chat rejected, the call threw the error of the rejection.
C22_ExactlyOneRequest ==
  /\ Len(chatCalls) <= 1
  /\ Ended => Len(chatCalls) = 1

\* C22 amended: never more than one request; a call that has ended passed
\* exactly one unless the translation of the conversation threw, and then
\* none; the request passed is the one built from the conversation; and it is
\* never passed again after client.chat has rejected: the call then throws
\* what client.chat rejected with.
C22_AtMostOneRequestNoRetry ==
  /\ [](/\ Len(chatCalls) <= 1
        /\ Ended => IF Get(generation) = [thrown |-> "SyntaxError"]
                    THEN chatCalls = <<>>
                    ELSE chatCalls = <<Get(chatRequest)>>
        /\ (chatPc = "chat") => chatCalls = <<Get(chatRequest)>> /\ generation = None)
  /\ [][(chatPc = "chat" /\ chatPc' = "done")
          => /\ chatCalls' = chatCalls
             /\ \/ "thrown" \notin DOMAIN Get(generation')
                \/ Get(generation').thrown \in {"timeout", "unauthorized"}]_vars

\* client.chat rejected the one request of a call, for either format.
C22_RejectedOnce ==
  /\ Ended /\ Len(chatCalls) = 1
  /\ Get(generation) = [thrown |-> "timeout"]
  /\ chatCalls[1].apiFormat = "GENERIC"
\* ------------------------------------------------------- claims: embeddings
\* The texts of the call that are not empty, in order.
Remaining == SelectSeq(embedArg, LAMBDA t : t # "")

\* C23: the requests of a call of embedDocuments carry, in order and without
\* gap or overlap, the texts of the call that are not empty, at most 90 per
\* request and no request empty after the first; a call that returns has sent
\* them all and returns one embedding per remaining text, the i-th being the
\* vector the service has for the i-th remaining text.
C23_BatchesInOrder ==
  embedOp = "embedDocuments" =>
    /\ \A k \in 1..Len(embedSent) : Len(embedSent[k]) <= 90 /\ (k > 1 => embedSent[k] # <<>>)
    /\ ConcatAll(embedSent) \o ConcatAll(embedQueue) = Remaining
    /\ (embedPc = "done" /\ "value" \in DOMAIN Get(embedReturn))
         => /\ embedQueue = <<>>
            /\ Get(embedReturn).value = [i \in 1..Len(Remaining) |-> VectorOf(Remaining[i])]

\* A call with empty entries returned after three requests.
C23_ThreeBatches ==
  /\ embedOp = "embedDocuments" /\ embedPc = "done" /\ "value" \in DOMAIN Get(embedReturn)
  /\ Len(embedSent) = 3 /\ Len(Remaining) < Len(embedArg)
  /\ Get(embedReturn).value[Len(Remaining)] = VectorOf(embedArg[Len(embedArg) - 1])
\* C24: a call of embedDocuments or embedQuery that ended on an answer
\* without a list of embeddings threw the shape-validation error: it returned
\* nothing, and threw no other error.
C24_ShapeValidated ==
  (embedPc = "done" /\ Get(embedResponse).ok /\ ~ HasEmbeddingsList(Get(embedResponse)))
    => Get(embedReturn) = [thrown |-> "Error in single batch embedding: worng respose format"]
\* ---------------------------------------------------- claims: key normalizer
\* C25: privateKeyParse applied to what privateKeyParse returned returns it
\* unchanged.
C25_Idempotent ==
  keyPasses = 2 => Get(keyOutput) = keyInput
\* The lines of a text: what stands between its newline characters.
Lines(s) ==
  LET cuts == SelectSeq([i \in 1..(Len(s) + 2) |-> i - 1],
                        LAMBDA i : i = 0 \/ i = Len(s) + 1 \/ s[i] = "\n")
  IN [k \in 1..(Len(cuts) - 1) |-> SubSeq(s, cuts[k] + 1, cuts[k + 1] - 1)]

\* C26: when the un-escaped, trimmed key holds a BEGIN <TYPE> ... END <TYPE>
\* envelope, what privateKeyParse returns is the BEGIN line of that type, the
\* body of the envelope without its whitespace in lines of exactly 64
\* characters, the last one of 1 to 64, and the END line of that type.
C26_CanonicalEnvelope ==
  (keyPasses > 0 /\ IsSome(MatchEnvelope(Unescape(Trim(keyInput)))))
    => LET envelope == Get(MatchEnvelope(Unescape(Trim(keyInput))))
           lines == Lines(Get(keyOutput))
           body == SubSeq(lines, 2, Len(lines) - 1)
       IN /\ Len(lines) >= 2
          /\ lines[1] = Begin \o envelope.type \o Dashes
          /\ lines[Len(lines)] = End \o envelope.type \o Dashes
          /\ ConcatAll(body) = SelectSeq(envelope.body, LAMBDA c : c \notin Whitespace)
          /\ \A k \in 1..Len(body) :
               IF k < Len(body) THEN Len(body[k]) = 64 ELSE Len(body[k]) \in 1..64

\* ------------------------------------------------------------------------
\* logWrapper
\* ------------------------------------------------------------------------
\* The input entries recorded at the run index of call c, and the output ones.
InputsOf(c) ==
  {i \in 1..Len(inputData) : IsSome(wrapCalls[c].index) /\ i - 1 = Get(wrapCalls[c].index)}
OutputsOf(c) ==
  {o \in 1..Len(outputData) :
     IsSome(wrapCalls[c].index) /\ outputData[o].index = Get(wrapCalls[c].index)}

\* Call c reached the wrapped instance with the arguments the caller gave.
Forwarded(c) ==
  /\ Len(targetCalls) >= c
  /\ targetCalls[c] = [method |-> wrapCalls[c].prop, arguments |-> wrapCalls[c].arguments]

\* Call c has one input entry of its arguments, and once it ended one output
\* entry at the same index, of what the wrapped method resolved or rejected with.
Recorded(c) ==
  /\ Cardinality(InputsOf(c)) = 1
  /\ \A i \in InputsOf(c) : inputData[i].json = wrapCalls[c].arguments
  /\ IF wrapCalls[c].state = "pending" THEN OutputsOf(c) = {}
     ELSE /\ Cardinality(OutputsOf(c)) = 1
          /\ \A o \in OutputsOf(c) :
               outputData[o].data =
                 IF wrapCalls[c].state = "returned"
                 THEN [response |-> wrapCalls[c].settled]
                 ELSE [error |-> [NodeOperationError |-> wrapCalls[c].settled]]

C28_RaceKeepsFirstTable ==
  /\ [](/\ \A p \in 1..Len(initPc) :
            initPc[p] \in {"_get_connection", "_table_exists", "get_embedding_dimension",
                           "_create_table", "returned"}
        /\ Len(creations) <= 1
        /\ (creations # <<>>) => tbl.exists /\ tbl.width = creations[1])
  /\ [][tbl.exists => tbl'.exists /\ tbl'.width = tbl.width]_vars

\* Both initializers found the table absent; the first created it, the second
\* probed another width, attempted the creation too, and returned after its
\* ORA-00955 was logged.
C28_DuplicateCreationLogged ==
  /\ Len(initPc) = 2 /\ \A p \in 1..2 : initPc[p] = "returned"
  /\ creations = <<2>> /\ tbl.exists /\ tbl.width = 2
  /\ probedDim = <<Some(2), Some(3)>>
  /\ logged = <<"ORA-00955">>

\* ------------------------------------------------------------------------
\* addTexts with OciEmbeddings
\* ------------------------------------------------------------------------
\* C29: every row addTexts binds for executeMany carries, next to its text, the
\* vector the embeddings model gives for that text, whatever the list of texts,
\* empty strings included (a row made for an id without a text has no text to
\* pair).
C29_RowsPairTextAndEmbedding ==
  \A c \in 1..Len(calls) :
    calls[c].fn = "executeMany" =>
      \A r \in 1..Len(calls[c].rows) :
        IsSome(calls[c].rows[r].text) =>
          calls[c].rows[r].embedding = EmbedText(<<Get(calls[c].rows[r].text)>>, modelDim)[1]

\* ------------------------------------------------------------------------
\* several jobs under one output prefix
\* ------------------------------------------------------------------------
\* The folders the results of the job are looked for in (lines 319-320), and
\* the objects of the bucket in them.
FoldersOfJob ==
  {prefixesToTry(Requested(params).outputPrefix, SplitPop(jobId))[k] : k \in {2, 3}}
WrittenForJob(name) == \E folder \in FoldersOfJob : StartsWith(name, folder)
Returned == returnItems[1].json.objectName

\* C30 as written: the object of a returned item is one written for the job of
\* the item, in one of its folders under the output prefix, never the object of
\* another job or of no job.
C30_ArtifactOfJob ==
  (pc = "done" /\ returnItems # <<>>) => WrittenForJob(Returned)

====
